---- MODULE Spec2Model ----
(***************************************************************************)
(* SigilEngine: canvas actors (CANVA_THREAD), the SPACE registry and the   *)
(* ASCII_SCREEN grid operations, modelled as a state machine.              *)
(*                                                                         *)
(* Every `with SPACE_LOCK:` block of the source is one atomic step; the    *)
(* code an actor runs between two accesses of shared state (the registry,  *)
(* a mailbox, the alive flag) is folded into the step that precedes it.    *)
(***************************************************************************)
EXTENDS Integers, Sequences, FiniteSets, TLC

(***************************************************************************)
(* Python's None.  A value that may be None is a sequence of length 0      *)
(* (None) or 1 (the value); identifiers that may be None use NoneStr.      *)
(***************************************************************************)
None == <<>>
Some(x) == <<x>>
IsNone(o) == o = <<>>
Val(o) == o[1]
NoneStr == "<None>"

Min(a, b) == IF a <= b THEN a ELSE b

(***************************************************************************)
(* The actors of the system.  An actor is named by its canvas_id; ids are  *)
(* unique.  UnknownId is an id no actor ever has.                          *)
(***************************************************************************)
Ids == {"c1", "c2", "c3"}
UnknownId == "zz"
OwnerOf(a) == "main"
VisibleOf(a) == TRUE

\* ------------------------------------------------------------------------
\* ASCII_SCREEN
\* ------------------------------------------------------------------------

\* A freshly created cell.
NewCell(canvas_id, owner, fillvalue, visible) ==
    [char |-> fillvalue, owner |-> owner, visible |-> visible, canvas_id |-> canvas_id]

\* create_canvas raises TypeError when range(1, height + 1) or, inside the
\* first row, range(1, width + 1) is evaluated on None.
create_canvas_raises(h, w) == IsNone(h) \/ (Val(h) >= 1 /\ IsNone(w))

\* create_canvas: dict[y][x] -> cell for y in 1..height, x in 1..width.
create_canvas(canvas_id, owner, h, w, fillvalue, visible) ==
    [y \in 1..h |-> [x \in 1..w |-> NewCell(canvas_id, owner, fillvalue, visible)]]

RefChar == "·"
BorderChar == "#"

\* create_ref_canvas: the host-reference overlay.
create_ref_canvas(h, w) ==
    [y \in 1..h |-> [x \in 1..w |-> NewCell("ref", "ref", RefChar, TRUE)]]

InBuffer(buffer, y, x) == y \in DOMAIN buffer /\ x \in DOMAIN buffer[y]

\* Mutant of write_cell: the cell is replaced by the metadata, not merged.
write_cell_replaces(buffer, y, x, metadata) ==
    IF InBuffer(buffer, y, x)
    THEN [ok |-> TRUE, buffer |-> [buffer EXCEPT ![y][x] = metadata]]
    ELSE [ok |-> FALSE, buffer |-> buffer]

\* write_cell: merge metadata into the cell; False (buffer unchanged) on KeyError.
write_cell(buffer, y, x, metadata) ==
    IF InBuffer(buffer, y, x)
    THEN [ok |-> TRUE, buffer |-> [buffer EXCEPT ![y][x] = metadata @@ @]]
    ELSE [ok |-> FALSE, buffer |-> buffer]

\* A metadata item of a packet is a dict given by value, or (in a forwarded
\* packet) the sender's own cell dict: the same object the sender's canvas
\* holds, read when the receiver merges it.
IsRef(m) == "ref_of" \in DOMAIN m
CellRef(a, y, x) == [ref_of |-> a, y |-> y, x |-> x]
Deref(canv, m) == IF IsRef(m) THEN Val(canv[m.ref_of])[m.y][m.x] ELSE m

\* zip_and_write on actor a's buffer: pairs chart and metadata positionally up
\* to the shorter list, returns the buffers after the writes and the count.
RECURSIVE zip_and_write_from(_, _, _, _, _)
zip_and_write_from(canv, a, chart, metadata_list, i) ==
    IF i > Min(Len(chart), Len(metadata_list))
    THEN [canv |-> canv, count |-> 0]
    ELSE LET w == write_cell(Val(canv[a]), chart[i][1], chart[i][2],
                             Deref(canv, metadata_list[i]))
             rest == zip_and_write_from([canv EXCEPT ![a] = Some(w.buffer)], a,
                                        chart, metadata_list, i + 1)
         IN  [canv |-> rest.canv, count |-> rest.count + (IF w.ok THEN 1 ELSE 0)]

zip_and_write(canv, a, chart, metadata_list) ==
    zip_and_write_from(canv, a, chart, metadata_list, 1)

\* Mutant of wrapped_from: the wrap test is `>` for `>=`.
RECURSIVE wrapped_from_late(_, _, _, _, _, _)
wrapped_from_late(string, wrap_width, original_x, y, x, i) ==
    IF i > Len(string) THEN <<>>
    ELSE IF string[i] = "\n"
    THEN wrapped_from_late(string, wrap_width, original_x, y + 1, original_x, i + 1)
    ELSE <<(<<y, x>>)>> \o
         (IF (x + 1) - original_x > wrap_width
          THEN wrapped_from_late(string, wrap_width, original_x, y + 1, original_x, i + 1)
          ELSE wrapped_from_late(string, wrap_width, original_x, y, x + 1, i + 1))

\* The loop of generate_wrapped_chart from character i on, with its y and x.
\* A string is a sequence of one-character strings.
RECURSIVE wrapped_from(_, _, _, _, _, _)
wrapped_from(string, wrap_width, original_x, y, x, i) ==
    IF i > Len(string) THEN <<>>
    ELSE IF string[i] = "\n"
    THEN wrapped_from(string, wrap_width, original_x, y + 1, original_x, i + 1)
    ELSE <<(<<y, x>>)>> \o
         (IF (x + 1) - original_x >= wrap_width
          THEN wrapped_from(string, wrap_width, original_x, y + 1, original_x, i + 1)
          ELSE wrapped_from(string, wrap_width, original_x, y, x + 1, i + 1))

\* generate_wrapped_chart(origin_yx, string, width).
generate_wrapped_chart(yx_origin, string, wrap_width) ==
    wrapped_from(string, wrap_width, yx_origin[2], yx_origin[1], yx_origin[2], 1)

\* generate_coords: row-major rectangle.
RECURSIVE RowMajor(_, _, _, _, _)
RowMajor(y0, x0, h, w, k) ==
    IF k >= h * w THEN <<>>
    ELSE <<(<<y0 + (k \div w), x0 + (k % w)>>)>> \o RowMajor(y0, x0, h, w, k + 1)

generate_coords(yx_corner, h, w) ==
    IF h <= 0 \/ w <= 0 THEN <<>> ELSE RowMajor(yx_corner[1], yx_corner[2], h, w, 0)

\* box_borders: the sequence of border writes, in the order the code makes them.
RECURSIVE WriteAll(_, _, _)
WriteAll(buffer, coords, char) ==
    IF coords = <<>> THEN buffer
    ELSE WriteAll(write_cell(buffer, coords[1][1], coords[1][2], [char |-> char]).buffer,
                  Tail(coords), char)

RECURSIVE TopBottom(_, _, _, _, _)
TopBottom(y, x, h, w, col) ==
    IF col >= x + w THEN <<>>
    ELSE << <<y, col>>, <<y + h - 1, col>> >> \o TopBottom(y, x, h, w, col + 1)

RECURSIVE LeftRight(_, _, _, _, _)
LeftRight(y, x, h, w, row) ==
    IF row >= y + h - 1 THEN <<>>
    ELSE << <<row, x>>, <<row, x + w - 1>> >> \o LeftRight(y, x, h, w, row + 1)

box_borders(buffer, yx_corner, h, w, char) ==
    WriteAll(buffer,
             TopBottom(yx_corner[1], yx_corner[2], h, w, yx_corner[2])
                \o LeftRight(yx_corner[1], yx_corner[2], h, w, yx_corner[1] + 1),
             char)


\* ------------------------------------------------------------------------
\* TIMER (utilities/timermodule.py).  Callbacks are names; a callback that is
\* invoked returns.
\* ------------------------------------------------------------------------

\* The timers: one per actor (CANVA_THREAD.timer) and the log hub's.
Timers == Ids \cup {"loghub"}

\* The values callable() accepts; "boom" raises when it is called.
Callables == {"f", "check_log_buffer", "boom"}

Raising == {"boom"}

\* The interval the actor gives its log event.
LogInterval == 10

\* TIMER.event(action, **{name: interval}): an interval that is not an int
\* (None here) is skipped; the action argument is not stored.
event(events, act, name, interval) ==
    IF IsNone(interval) THEN events
    ELSE (name :> [interval |-> Val(interval), last_trigger |-> 0, action |-> NoneStr])
            @@ events

\* TIMER.action(**{name: act}).
action(events, name, act) ==
    IF DOMAIN events # {} /\ name \in DOMAIN events /\ act \in Callables
    THEN [events EXCEPT ![name].action = act]
    ELSE events

\* The test of update_timer (line 77).
Due(rules, current_time) ==
    current_time - rules.last_trigger >= rules.interval /\ rules.action # NoneStr

\* Mutant of update_timer: a triggered event's timestamp becomes the current time.
update_timer_resets(events, current_time) ==
    [events |-> [n \in DOMAIN events |->
                    IF Due(events[n], current_time)
                    THEN [events[n] EXCEPT !.last_trigger = current_time]
                    ELSE events[n]],
     invoked |-> [n \in DOMAIN events |-> IF Due(events[n], current_time) THEN 1 ELSE 0]]

\* TIMER.update_timer at current_time: the events after the pass and how often
\* each event's callback was invoked in it.
update_timer(events, current_time) ==
    [events |-> [n \in DOMAIN events |->
                    IF Due(events[n], current_time)
                    THEN [events[n] EXCEPT !.last_trigger = @ + events[n].interval]
                    ELSE events[n]],
     invoked |-> [n \in DOMAIN events |-> IF Due(events[n], current_time) THEN 1 ELSE 0]]

\* update_timer raises: a due event's callback raises (line 79, after the
\* event's timestamp was advanced at line 78); the exception leaves
\* update_timer.  (The pass stops there; the timers that are given raising
\* callbacks hold one event.)
update_timer_raises(events, current_time) ==
    \E n \in DOMAIN events : Due(events[n], current_time) /\ events[n].action \in Raising

\* ------------------------------------------------------------------------
\* Command packets
\* ------------------------------------------------------------------------

\* args_package as the code reads it: each field is what args_package.get(key)
\* returns, None when the key is missing.
NoArgs == [height |-> None, width |-> None, yx |-> None,
           host |-> NoneStr, fillvalue |-> NoneStr, canvas_id |-> NoneStr]

\* A well-formed packet: {"command": {"cmd": .., "args": ..}, "chart": .., "metadata": ..}.
\* block is "present", "empty" (an empty command dict) or "missing" (no command key).
Packet(cmd, args, chart, metadata) ==
    [isdict |-> TRUE, block |-> "present", cmd |-> cmd, args |-> args,
     chart |-> chart, metadata |-> metadata]

\* The packets PACKET_CREATOR builds.
PktWrite(chart, metadata) == Packet("write", NoArgs, Some(chart), Some(metadata))
PktAutoForward(chart, metadata) == Packet("auto_forward", NoArgs, Some(chart), Some(metadata))
PktForwardTo(target_id, chart, metadata) ==
    Packet("forward_to", [NoArgs EXCEPT !.canvas_id = target_id], Some(chart), Some(metadata))
PktResize(h, w) == Packet("resize", [NoArgs EXCEPT !.height = Some(h), !.width = Some(w)], None, None)
PktSetOrigin(y, x) == Packet("set_origin", [NoArgs EXCEPT !.yx = Some(<<y, x>>)], None, None)
PktSetHost(host_id) == Packet("set_host", [NoArgs EXCEPT !.host = host_id], None, None)
PktSetFillvalue(char) == Packet("set_fillvalue", [NoArgs EXCEPT !.fillvalue = char], None, None)
PktClear == Packet("clear", NoArgs, None, None)
PktKill == Packet("!kill", NoArgs, None, None)

\* Packets no builder call returns.
PktNotADict == [Packet(NoneStr, NoArgs, None, None) EXCEPT !.isdict = FALSE]
PktNoCommand == [Packet(NoneStr, NoArgs, None, None) EXCEPT !.block = "missing"]
PktEmptyCommand == [Packet(NoneStr, NoArgs, None, None) EXCEPT !.block = "empty"]
PktUnknown == Packet("blink", NoArgs, None, None)

KnownCommands == {"write", "forward_to", "auto_forward", "clear", "resize",
                  "set_origin", "set_host", "set_fillvalue", "!kill"}

\* ------------------------------------------------------------------------
\* State
\* ------------------------------------------------------------------------
VARIABLES
    SPACE,            \* the registry: canvas_id -> entry, for the registered ids
    alive,            \* CANVA_THREAD.alive
    host,             \* CANVA_THREAD.host (NoneStr: no host)
    origin_yx,        \* CANVA_THREAD.origin_yx: Some(<<y, x>>), None for (None, None)
    height, width,    \* CANVA_THREAD.height / width (may be None)
    fill_value,       \* CANVA_THREAD.fill_value
    conversion_chart, \* CANVA_THREAD.conversion_chart (may be None)
    canvas,           \* CANVA_THREAD.canvas (may be None)
    host_ref_canvas,  \* CANVA_THREAD.host_ref_canvas (may be None)
    host_height, host_width,
    queue,            \* CANVA_THREAD.queue: the mailbox, a FIFO of packets
    pc,               \* where each actor's thread stands in run()
    local,            \* parse_packet's local variables that live across steps
    injected,         \* number of packets external callers have enqueued
    killed,           \* history: the actors that have executed kill()
    forwarded,        \* history: per actor, how many packets it has put into a mailbox
    outcome,          \* history: per actor, how its last forward attempt or direct call ended
    synced,           \* history: per actor, the <<height, width>> it last wrote to the registry
    log,              \* history: per actor, the commands it has taken from its mailbox
    timer_events,     \* TIMER.timer_events of every timer: name -> interval, last_trigger, action
    now,              \* time.time()
    invoked,          \* history: per timer and event, the callback invocations of its last poll
    scheduled,        \* history: per timer and event, time.time() when event() stored it
    content_origin,   \* PACKET_CREATOR.content_origin
    target_width,     \* PACKET_CREATOR.target_width
    composed,         \* history: the last message given to write_to_canvas and what it returned
    SPACE_LOCK        \* space.SPACE_LOCK: the thread that holds it and where it took it

attrs == <<host, origin_yx, height, width, fill_value, conversion_chart,
           host_ref_canvas, host_height, host_width>>
hist0 == <<injected, killed, forwarded, outcome, synced>>
hist == <<hist0, log>>
avars == <<SPACE, alive, canvas, queue, pc, local, attrs, hist>>
tvars == <<timer_events, now, invoked, scheduled>>
pvars == <<content_origin, target_width, composed>>
lvars == <<SPACE_LOCK>>
vars == <<avars, tvars, pvars, lvars>>

\* The packet creator after PACKET_CREATOR(8) (examples.py:85).
CreatorConstructed ==
    /\ content_origin = <<1, 1>>
    /\ target_width = 8
    /\ composed = None

\* space.py: SPACE_LOCK = threading.Lock(), not held.
Unheld == [holder |-> NoneStr, at |-> NoneStr]

LockConstructed == SPACE_LOCK = Unheld

\* The timers after construction: each actor's __init__ calls
\* self.timer.event(self.logger.check_log_buffer, logevent=10); the log hub's
\* timer starts empty.
TimersConstructed ==
    /\ timer_events = [t \in Timers |->
          IF t \in Ids THEN event(<<>>, "check_log_buffer", "logevent", Some(LogInterval))
          ELSE <<>>]
    /\ now = 0
    /\ invoked = [t \in Timers |->
          IF t \in Ids THEN [n \in {"logevent"} |-> 0] ELSE <<>>]
    /\ scheduled = [t \in Timers |->
          IF t \in Ids THEN [n \in {"logevent"} |-> 0] ELSE <<>>]

NoLocal == [command |-> NoneStr, args_package |-> NoArgs, written |-> 0,
            forward_packet |-> None, host_queue |-> NoneStr]

\* The registry entry run() inserts.
Entry(a, h, w) ==
    [id |-> a, owner |-> OwnerOf(a), height |-> h, width |-> w,
     visible |-> VisibleOf(a), queue |-> a, thread_obj |-> a]

Registered(id) == id \in DOMAIN SPACE

\* Mutant of Remove: the pop empties the registry.
Remove_all(space, id) == [k \in {} |-> space[k]]

\* SPACE.pop(id, None).
Remove(space, id) == [k \in DOMAIN space \ {id} |-> space[k]]

\* CANVA_THREAD.__init__ for every actor, from the constructor arguments cfg[a].
Constructed(cfg) ==
    /\ SPACE = <<>>
    /\ alive = [a \in Ids |-> TRUE]
    /\ host = [a \in Ids |-> cfg[a].host]
    /\ origin_yx = [a \in Ids |-> Some(cfg[a].origin_yx)]
    /\ height = [a \in Ids |-> cfg[a].height]
    /\ width = [a \in Ids |-> cfg[a].width]
    /\ fill_value = [a \in Ids |-> cfg[a].fillvalue]
    /\ conversion_chart = [a \in Ids |-> None]
    /\ canvas = [a \in Ids |-> None]
    /\ host_ref_canvas = [a \in Ids |-> None]
    /\ host_height = [a \in Ids |-> None]
    /\ host_width = [a \in Ids |-> None]
    /\ queue = [a \in Ids |-> <<>>]
    /\ pc = [a \in Ids |-> "start"]
    /\ local = [a \in Ids |-> NoLocal]
    /\ injected = 0
    /\ killed = {}
    /\ forwarded = [a \in Ids |-> 0]
    /\ outcome = [a \in Ids |-> "none"]
    /\ synced = [a \in Ids |-> None]
    /\ log = [a \in Ids |-> <<>>]
    /\ TimersConstructed
    /\ CreatorConstructed
    /\ LockConstructed


\* ------------------------------------------------------------------------
\* Helpers of the actor's steps
\* ------------------------------------------------------------------------

\* A forwarded packet holds the sender's cell dicts themselves.  When the
\* sender replaces its canvas by a new one (create_canvas), the dicts a packet
\* holds are no longer the canvas's: they keep the content they had.
FreezePacket(p, canv, a) ==
    IF IsNone(p.metadata) THEN p
    ELSE [p EXCEPT !.metadata =
            Some([i \in 1..Len(Val(p.metadata)) |->
                    IF IsRef(Val(p.metadata)[i]) /\ Val(p.metadata)[i].ref_of = a
                    THEN Deref(canv, Val(p.metadata)[i])
                    ELSE Val(p.metadata)[i]])]

Freeze(q, canv, a) ==
    [b \in Ids |-> [i \in 1..Len(q[b]) |-> FreezePacket(q[b][i], canv, a)]]

\* Mutant of Scan: the origin offset is not applied to the coordinates.
Scan_untranslated(a, buffer, fill, origin, h, w) ==
    [i \in 1..Cardinality({k \in 0..(h * w - 1) :
                              buffer[1 + (k \div w)][1 + (k % w)].char # fill}) |->
        LET k == CHOOSE k \in 0..(h * w - 1) :
                    /\ buffer[1 + (k \div w)][1 + (k % w)].char # fill
                    /\ Cardinality({j \in 0..(k - 1) :
                           buffer[1 + (j \div w)][1 + (j % w)].char # fill}) = i - 1
        IN  << <<1 + (k \div w), 1 + (k % w)>>, CellRef(a, 1 + (k \div w), 1 + (k % w))>>]

\* The scan of parse_packet: every (y, x), row-major, whose char differs from
\* fill_value, as the pair <<host coordinate, the cell>>.
RECURSIVE ScanFrom(_, _, _, _, _, _, _)
ScanFrom(a, buffer, fill, origin, h, w, k) ==
    IF k >= h * w THEN <<>>
    ELSE LET y == 1 + (k \div w)
             x == 1 + (k % w)
             here == IF buffer[y][x].char # fill
                     THEN << <<(<<Val(origin)[1] + (y - 1), Val(origin)[2] + (x - 1)>>),
                                CellRef(a, y, x)>> >>
                     ELSE <<>>
         IN  here \o ScanFrom(a, buffer, fill, origin, h, w, k + 1)

Scan(a, buffer, fill, origin, h, w) ==
    IF h <= 0 \/ w <= 0 THEN <<>> ELSE ScanFrom(a, buffer, fill, origin, h, w, 0)

\* The scan raises when range() meets a None dimension, when a scanned cell is
\* not in the canvas (KeyError), or when a found cell meets a None origin.
scan_raises(buffer, fill, origin, h, w) ==
    \/ IsNone(h)
    \/ (Val(h) >= 1 /\ IsNone(w))
    \/ /\ Val(h) >= 1 /\ Val(w) >= 1
       /\ \/ \E y \in 1..Val(h), x \in 1..Val(w) : ~InBuffer(buffer, y, x)
          \/ /\ IsNone(origin)
             /\ \E y \in 1..Val(h), x \in 1..Val(w) : buffer[y][x].char # fill

\* generate_coords raises when it adds None to a number.
generate_coords_raises(origin, h, w) ==
    IsNone(origin) \/ IsNone(h) \/ (Val(h) >= 1 /\ IsNone(w))

\* Mutant of Return: after a packet the loop receives again at once, the
\* liveness flag is tested only when the mailbox was found empty.
Return_skips_test(a) ==
    /\ pc' = [pc EXCEPT ![a] = "recv"]
    /\ local' = [local EXCEPT ![a] = NoLocal]

\* parse_packet returns, or raises into run()'s `except Exception: continue`:
\* either way the thread is back at `while self.alive`.
Return(a) ==
    /\ pc' = [pc EXCEPT ![a] = "loop"]
    /\ local' = [local EXCEPT ![a] = NoLocal]

Goto(a, where) == pc' = [pc EXCEPT ![a] = where]

Receiving(a) == pc[a] = "recv" /\ queue[a] # <<>>
Pop(a) == [queue EXCEPT ![a] = Tail(@)]

\* The packet reaches the command dispatch of parse_packet (lines 301-316).
Dispatches(p) == p.isdict /\ p.block = "present"

\* Bound on the packets external callers enqueue in one behaviour.
MaxInject == 2

\* The history variables stop growing here (forwarding round a cycle of hosts
\* never ends).
HistCap == MaxInject + 1

\* History: the command and arguments of the packet taken from the mailbox.
Log(a) ==
    log' = [log EXCEPT ![a] =
              IF Len(@) >= HistCap THEN @
              ELSE Append(@, IF Dispatches(Head(queue[a]))
                             THEN [cmd |-> Head(queue[a]).cmd, args |-> Head(queue[a]).args]
                             ELSE [cmd |-> NoneStr, args |-> NoArgs])]

Outcome(a, what) == outcome' = [outcome EXCEPT ![a] = what]

\* ------------------------------------------------------------------------
\* The environment
\* ------------------------------------------------------------------------

\* An external caller puts a packet of P into the mailbox of an actor of T.
Inject(T, P) ==
    /\ injected < MaxInject
    /\ \E a \in T, p \in P : queue' = [queue EXCEPT ![a] = Append(@, p)]
    /\ injected' = injected + 1
    /\ UNCHANGED <<SPACE, alive, canvas, pc, local, attrs, killed, forwarded, outcome, synced, log>>
    /\ UNCHANGED <<tvars, pvars, lvars>>

\* External callers keep putting packets of P into the mailboxes of T, without
\* end; a mailbox holds at most MaxInject packets that wait.
Arrive(T, P) ==
    /\ \E a \in T, p \in P :
          /\ Len(queue[a]) < MaxInject
          /\ queue' = [queue EXCEPT ![a] = Append(@, p)]
    /\ UNCHANGED <<SPACE, alive, canvas, pc, local, attrs, hist>>
    /\ UNCHANGED <<tvars, pvars, lvars>>

\* An external caller clears the liveness flag (EXAMPLES.shutdown).
Shutdown(a) ==
    /\ alive[a]
    /\ alive' = [alive EXCEPT ![a] = FALSE]
    /\ UNCHANGED <<SPACE, canvas, queue, pc, local, attrs, hist>>
    /\ UNCHANGED <<tvars, pvars, lvars>>

\* ------------------------------------------------------------------------
\* CANVA_THREAD.run
\* ------------------------------------------------------------------------

\* run(), lines 447-469: register, then create the canvas; a create_canvas
\* that raises makes run() return.
Start(a) ==
    /\ pc[a] = "start"
    /\ SPACE' = (a :> Entry(a, height[a], width[a])) @@ SPACE
    /\ IF create_canvas_raises(height[a], width[a])
       THEN /\ Goto(a, "done")
            /\ UNCHANGED canvas
       ELSE /\ Goto(a, "init_sync")
            /\ canvas' = [canvas EXCEPT ![a] =
                  Some(create_canvas(a, OwnerOf(a), Val(height[a]), Val(width[a]),
                                     fill_value[a], VisibleOf(a)))]
    /\ synced' = [synced EXCEPT ![a] = Some(<<height[a], width[a]>>)]
    /\ UNCHANGED <<alive, queue, local, attrs, injected, killed, forwarded, outcome, log>>
    /\ UNCHANGED <<tvars, pvars, lvars>>

\* sync_host (lines 132-164) run by actor a.  raised: pc on an exception.
sync_host(a, raised) ==
    IF host[a] = NoneStr \/ ~Registered(host[a])
    THEN /\ Return(a)
         /\ UNCHANGED <<attrs>>
    ELSE LET host_data == SPACE[host[a]]
             hh == host_data.height
             hw == host_data.width
         IN  /\ host_height' = [host_height EXCEPT ![a] = hh]
             /\ host_width' = [host_width EXCEPT ![a] = hw]
             /\ IF create_canvas_raises(hh, hw)
                THEN /\ UNCHANGED <<host_ref_canvas, conversion_chart>>
                     /\ Goto(a, raised)
                ELSE IF generate_coords_raises(origin_yx[a], height[a], width[a])
                THEN /\ host_ref_canvas' = [host_ref_canvas EXCEPT ![a] =
                                              Some(create_ref_canvas(Val(hh), Val(hw)))]
                     /\ UNCHANGED conversion_chart
                     /\ Goto(a, raised)
                ELSE /\ conversion_chart' = [conversion_chart EXCEPT ![a] =
                           Some(generate_coords(Val(origin_yx[a]), Val(height[a]), Val(width[a])))]
                     /\ IF IsNone(width[a])
                        THEN /\ host_ref_canvas' = [host_ref_canvas EXCEPT ![a] =
                                                      Some(create_ref_canvas(Val(hh), Val(hw)))]
                             /\ Goto(a, raised)
                        ELSE /\ host_ref_canvas' = [host_ref_canvas EXCEPT ![a] =
                                   Some(box_borders(create_ref_canvas(Val(hh), Val(hw)),
                                                    Val(origin_yx[a]), Val(height[a]),
                                                    Val(width[a]), BorderChar))]
                             /\ Goto(a, "loop")
             /\ local' = [local EXCEPT ![a] = NoLocal]
             /\ UNCHANGED <<host, origin_yx, height, width, fill_value>>

\* run(), line 474: the first host sync, outside any try: an exception ends the thread.
InitSync(a) ==
    /\ pc[a] = "init_sync"
    /\ sync_host(a, "done")
    /\ UNCHANGED <<SPACE, alive, canvas, queue, hist>>
    /\ UNCHANGED <<tvars, pvars, lvars>>

\* A sync_host called from a command handler: an exception is caught by the loop.
\* One step; the specifications in which the host's entry can be updated
\* while a child syncs take SyncHostGet, ReadHostHeight, ReadHostWidth instead.
SyncHost(a) ==
    /\ pc[a] = "sync_host"
    /\ sync_host(a, "loop")
    /\ UNCHANGED <<SPACE, alive, canvas, queue, hist>>
    /\ UNCHANGED <<tvars, pvars, lvars>>

\* sync_host in the steps its reads of the host's entry are made of.  Lines
\* 145-154: the entry dict itself is fetched under the lock; the dict is the
\* one sync_to_space of the host updates in place.
SyncHostGet(a) ==
    /\ pc[a] = "sync_host"
    /\ IF host[a] = NoneStr \/ ~Registered(host[a])
       THEN Return(a)
       ELSE Goto(a, "read_height") /\ UNCHANGED local
    /\ UNCHANGED <<SPACE, alive, canvas, queue, attrs, hist>>
    /\ UNCHANGED <<tvars, pvars, lvars>>

\* Line 156: host_data.get("height"), after the lock was released.
ReadHostHeight(a) ==
    /\ pc[a] = "read_height"
    /\ host_height' = [host_height EXCEPT ![a] = SPACE[host[a]].height]
    /\ Goto(a, "read_width")
    /\ UNCHANGED <<SPACE, alive, canvas, queue, local, host, origin_yx, height, width,
                   fill_value, conversion_chart, host_ref_canvas, host_width, hist>>
    /\ UNCHANGED <<tvars, pvars, lvars>>

\* Lines 157-164: host_data.get("width"), then the overlay, the conversion
\* chart and the border, from the recorded height and width.
ReadHostWidth(a) ==
    /\ pc[a] = "read_width"
    /\ LET hh == host_height[a]
           hw == SPACE[host[a]].width
       IN  /\ host_width' = [host_width EXCEPT ![a] = hw]
           /\ IF create_canvas_raises(hh, hw)
              THEN UNCHANGED <<host_ref_canvas, conversion_chart>>
              ELSE IF generate_coords_raises(origin_yx[a], height[a], width[a])
              THEN /\ host_ref_canvas' = [host_ref_canvas EXCEPT ![a] =
                                            Some(create_ref_canvas(Val(hh), Val(hw)))]
                   /\ UNCHANGED conversion_chart
              ELSE /\ conversion_chart' = [conversion_chart EXCEPT ![a] =
                         Some(generate_coords(Val(origin_yx[a]), Val(height[a]), Val(width[a])))]
                   /\ host_ref_canvas' = [host_ref_canvas EXCEPT ![a] =
                         IF IsNone(width[a])
                         THEN Some(create_ref_canvas(Val(hh), Val(hw)))
                         ELSE Some(box_borders(create_ref_canvas(Val(hh), Val(hw)),
                                               Val(origin_yx[a]), Val(height[a]),
                                               Val(width[a]), BorderChar))]
    /\ Return(a)
    /\ UNCHANGED <<SPACE, alive, canvas, queue, host, origin_yx, height, width,
                   fill_value, host_height, hist>>
    /\ UNCHANGED <<tvars, pvars, lvars>>

\* Mutant of CheckAlive: `while True:`, the liveness flag is not read.
CheckAlive_forever(a) ==
    /\ pc[a] = "loop"
    /\ Goto(a, "recv")
    /\ timer_events' = [timer_events EXCEPT ![a] = update_timer(@, now).events]
    /\ invoked' = [invoked EXCEPT ![a] = update_timer(timer_events[a], now).invoked]
    /\ UNCHANGED <<SPACE, alive, canvas, queue, local, attrs, hist, now, scheduled, pvars, lvars>>

\* Mutant of CheckAlive: `while self.alive or not self.queue.empty():`, the
\* mailbox is drained before the loop ends.
CheckAlive_drains(a) ==
    /\ pc[a] = "loop"
    /\ Goto(a, IF alive[a] \/ queue[a] # <<>> THEN "recv" ELSE "finally")
    /\ IF alive[a] \/ queue[a] # <<>>
       THEN /\ timer_events' = [timer_events EXCEPT ![a] = update_timer(@, now).events]
            /\ invoked' = [invoked EXCEPT ![a] = update_timer(timer_events[a], now).invoked]
       ELSE UNCHANGED <<timer_events, invoked>>
    /\ UNCHANGED <<SPACE, alive, canvas, queue, local, attrs, hist, now, scheduled, pvars, lvars>>

\* `while self.alive:` (line 480) and, inside the loop, the timer poll (line
\* 483); an exception of the poll is caught at 486-487, which skips the
\* receive of this iteration.
CheckAlive(a) ==
    /\ pc[a] = "loop"
    /\ Goto(a, IF ~alive[a] THEN "finally"
               ELSE IF update_timer_raises(timer_events[a], now) THEN "loop"
               ELSE "recv")
    /\ IF alive[a]
       THEN /\ timer_events' = [timer_events EXCEPT ![a] = update_timer(@, now).events]
            /\ invoked' = [invoked EXCEPT ![a] = update_timer(timer_events[a], now).invoked]
       ELSE UNCHANGED <<timer_events, invoked>>
    /\ UNCHANGED <<SPACE, alive, canvas, queue, local, attrs, hist, now, scheduled, pvars, lvars>>

\* queue.get(timeout=0.1) on an empty mailbox raises Empty: continue (lines 484-487).
RecvTimeout(a) ==
    /\ pc[a] = "recv"
    /\ queue[a] = <<>>
    /\ Goto(a, "loop")
    /\ UNCHANGED <<SPACE, alive, canvas, queue, local, attrs, hist>>
    /\ UNCHANGED <<tvars, pvars, lvars>>

\* The finally block of run() (lines 488-490).
Finally(a) ==
    /\ pc[a] = "finally"
    /\ SPACE' = Remove(SPACE, a)
    /\ Goto(a, "done")
    /\ synced' = [synced EXCEPT ![a] = None]
    /\ UNCHANGED <<alive, canvas, queue, local, attrs, injected, killed, forwarded, outcome, log>>
    /\ UNCHANGED <<tvars, pvars, lvars>>


\* ------------------------------------------------------------------------
\* CANVA_THREAD.parse_packet: one action per command; the head of the mailbox
\* is taken (queue.get) and handled up to the handler's first registry access.
\* ------------------------------------------------------------------------

\* Mutant of RecvIgnored: the AttributeError of a packet without a command
\* block is not caught and ends the loop.
RecvIgnored_uncaught(a) ==
    /\ Receiving(a)
    /\ Log(a)
    /\ ~Dispatches(Head(queue[a])) \/ Head(queue[a]).cmd \notin KnownCommands
    /\ queue' = Pop(a)
    /\ IF ~Head(queue[a]).isdict \/ Head(queue[a]).block = "missing"
       THEN Goto(a, "finally") /\ local' = [local EXCEPT ![a] = NoLocal]
       ELSE Return(a)
    /\ UNCHANGED <<SPACE, alive, canvas, attrs, hist0>>
    /\ UNCHANGED <<tvars, pvars, lvars>>

\* Mutant of RecvIgnored: the final else of the dispatch clears the grid.
RecvIgnored_else_clears(a) ==
    /\ Receiving(a)
    /\ Log(a)
    /\ ~Dispatches(Head(queue[a])) \/ Head(queue[a]).cmd \notin KnownCommands
    /\ IF Dispatches(Head(queue[a])) /\ ~create_canvas_raises(height[a], width[a])
       THEN /\ canvas' = [canvas EXCEPT ![a] =
                  Some(create_canvas(a, OwnerOf(a), Val(height[a]), Val(width[a]),
                                     fill_value[a], VisibleOf(a)))]
            /\ queue' = Freeze(Pop(a), canvas, a)
       ELSE /\ UNCHANGED canvas
            /\ queue' = Pop(a)
    /\ Return(a)
    /\ UNCHANGED <<SPACE, alive, attrs, hist0>>
    /\ UNCHANGED <<tvars, pvars, lvars>>

\* Lines 301-316 and 430-432: a packet that is not a dict or has no command
\* block raises AttributeError at .get; an empty command block and an unknown
\* command return.  Nothing changes but the mailbox.
RecvIgnored(a) ==
    /\ Receiving(a)
    /\ Log(a)
    /\ ~Dispatches(Head(queue[a])) \/ Head(queue[a]).cmd \notin KnownCommands
    /\ queue' = Pop(a)
    /\ Return(a)
    /\ UNCHANGED <<SPACE, alive, canvas, attrs, hist0>>
    /\ UNCHANGED <<tvars, pvars, lvars>>

\* zip(chart, metadata) raises TypeError when either is None.
zip_raises(p) == IsNone(p.chart) \/ IsNone(p.metadata)

\* Mutant of RecvWrite: after the write the handler goes on as auto_forward does.
RecvWrite_then_forwards(a) ==
    /\ Receiving(a)
    /\ Log(a)
    /\ LET p == Head(queue[a])
           zw == zip_and_write(canvas, a, Val(p.chart), Val(p.metadata))
       IN
       /\ Dispatches(p) /\ p.cmd = "write"
       /\ IF zip_raises(p)
          THEN UNCHANGED canvas /\ Return(a)
          ELSE /\ canvas' = zw.canv
               /\ Goto(a, "check_host")
               /\ local' = [local EXCEPT ![a] =
                     [NoLocal EXCEPT !.command = "auto_forward", !.written = zw.count]]
    /\ queue' = Pop(a)
    /\ UNCHANGED <<SPACE, alive, attrs, hist0>>
    /\ UNCHANGED <<tvars, pvars, lvars>>

\* "write" (lines 318-320).
RecvWrite(a) ==
    /\ Receiving(a)
    /\ Log(a)
    /\ LET p == Head(queue[a]) IN
       /\ Dispatches(p) /\ p.cmd = "write"
       /\ canvas' = IF zip_raises(p) THEN canvas
                    ELSE zip_and_write(canvas, a, Val(p.chart), Val(p.metadata)).canv
    /\ queue' = Pop(a)
    /\ Return(a)
    /\ UNCHANGED <<SPACE, alive, attrs, hist0>>
    /\ UNCHANGED <<tvars, pvars, lvars>>

\* Mutant of reached_target: the packet is forwarded past its target.
reached_target_never(p, a) == FALSE

\* Lines 327-330: forward_to whose target id is this canvas's id.
reached_target(p, a) == p.cmd = "forward_to" /\ p.args.canvas_id = a

\* "forward_to" (lines 323-330) and "auto_forward" (lines 366-369): the local
\* write; forward_to stops here when the target is this canvas.
RecvForward(a) ==
    /\ Receiving(a)
    /\ Log(a)
    /\ LET p == Head(queue[a])
           zw == zip_and_write(canvas, a, Val(p.chart), Val(p.metadata))
       IN
       /\ Dispatches(p) /\ p.cmd \in {"forward_to", "auto_forward"}
       /\ IF zip_raises(p)
          THEN /\ UNCHANGED canvas
               /\ Return(a)
          ELSE /\ canvas' = zw.canv
               /\ IF reached_target(p, a)
                  THEN Return(a)
                  ELSE /\ Goto(a, "check_host")
                       /\ local' = [local EXCEPT ![a] =
                             [NoLocal EXCEPT !.command = p.cmd,
                                             !.args_package = p.args,
                                             !.written = zw.count]]
    /\ queue' = Pop(a)
    /\ UNCHANGED <<SPACE, alive, attrs, hist0>>
    /\ UNCHANGED <<tvars, pvars, lvars>>

\* check_host (lines 119-130).
check_host(a) == host[a] # NoneStr /\ Registered(host[a])

\* Mutant of ForwardPacket: the chart carries (x, y) for (y, x).
ForwardPacket_transposed(cmd, args, found) ==
    Packet(cmd,
           IF cmd = "forward_to" THEN [NoArgs EXCEPT !.canvas_id = args.canvas_id] ELSE NoArgs,
           Some([i \in 1..Len(found) |-> <<found[i][1][2], found[i][1][1]>>]),
           Some([i \in 1..Len(found) |-> found[i][2]]))

\* Mutant of ForwardPacket: the target id is lost, a forward_to packet is sent
\* on as auto_forward.
ForwardPacket_drops_target(cmd, args, found) ==
    Packet("auto_forward", NoArgs,
           Some([i \in 1..Len(found) |-> found[i][1]]),
           Some([i \in 1..Len(found) |-> found[i][2]]))

\* The packet built at lines 351-358 / 392-399 from the scan.
ForwardPacket(cmd, args, found) ==
    Packet(cmd,
           IF cmd = "forward_to" THEN [NoArgs EXCEPT !.canvas_id = args.canvas_id] ELSE NoArgs,
           Some([i \in 1..Len(found) |-> found[i][1]]),
           Some([i \in 1..Len(found) |-> found[i][2]]))

\* Lines 332-358 and 371-399: check_host under the lock, then the scan.
CheckHost(a) ==
    /\ pc[a] = "check_host"
    /\ LET l == local[a]
           go == check_host(a) /\ (l.command = "forward_to" \/ l.written > 0)
           buffer == Val(canvas[a])
           found == Scan(a, buffer, fill_value[a], origin_yx[a],
                         Val(height[a]), Val(width[a]))
       IN
       IF ~go
       THEN Return(a) /\ Outcome(a, "no_forward")
       ELSE IF scan_raises(buffer, fill_value[a], origin_yx[a], height[a], width[a])
       THEN Return(a) /\ Outcome(a, "scan_raised")
       ELSE IF found = <<>>
       THEN Return(a) /\ Outcome(a, "nothing_found")
       ELSE /\ Goto(a, "lookup")
            /\ local' = [local EXCEPT ![a].forward_packet =
                            Some(ForwardPacket(l.command, l.args_package, found))]
            /\ Outcome(a, "found")
    /\ UNCHANGED <<SPACE, alive, canvas, queue, attrs, injected, killed, forwarded, synced, log>>
    /\ UNCHANGED <<tvars, pvars, lvars>>

\* Mutant of Lookup: the AttributeError of a missing host ends the loop.
Lookup_uncaught(a) ==
    /\ pc[a] = "lookup"
    /\ IF Registered(host[a])
       THEN /\ Goto(a, "put")
            /\ local' = [local EXCEPT ![a].host_queue = SPACE[host[a]].queue]
            /\ Outcome(a, "looked_up")
       ELSE /\ Goto(a, "finally")
            /\ local' = [local EXCEPT ![a] = NoLocal]
            /\ Outcome(a, "lookup_raised")
    /\ UNCHANGED <<SPACE, alive, canvas, queue, attrs, injected, killed, forwarded, synced, log>>
    /\ UNCHANGED <<tvars, pvars, lvars>>

\* Lines 359-360 / 400-401: SPACE.get(self.host).get("queue") under the lock;
\* AttributeError when the host's entry is gone.
Lookup(a) ==
    /\ pc[a] = "lookup"
    /\ IF Registered(host[a])
       THEN /\ Goto(a, "put")
            /\ local' = [local EXCEPT ![a].host_queue = SPACE[host[a]].queue]
            /\ Outcome(a, "looked_up")
       ELSE Return(a) /\ Outcome(a, "lookup_raised")
    /\ UNCHANGED <<SPACE, alive, canvas, queue, attrs, injected, killed, forwarded, synced, log>>
    /\ UNCHANGED <<tvars, pvars, lvars>>

\* Mutant of Put: the sender writes the cells into its host's grid itself.
Put_writes_host(a) ==
    /\ pc[a] = "put"
    /\ canvas' = IF IsNone(canvas[local[a].host_queue]) THEN canvas
                 ELSE zip_and_write(canvas, local[a].host_queue,
                                    Val(Val(local[a].forward_packet).chart),
                                    Val(Val(local[a].forward_packet).metadata)).canv
    /\ forwarded' = [forwarded EXCEPT ![a] = Min(@ + 1, HistCap)]
    /\ Outcome(a, "put")
    /\ Return(a)
    /\ UNCHANGED <<SPACE, alive, queue, attrs, injected, killed, synced, log>>
    /\ UNCHANGED <<tvars, pvars, lvars>>

\* Mutant of Put: the packet goes to the sender's own mailbox.
Put_own_mailbox(a) ==
    /\ pc[a] = "put"
    /\ queue' = [queue EXCEPT ![a] = Append(@, Val(local[a].forward_packet))]
    /\ forwarded' = [forwarded EXCEPT ![a] = Min(@ + 1, HistCap)]
    /\ Outcome(a, "put")
    /\ Return(a)
    /\ UNCHANGED <<SPACE, alive, canvas, attrs, injected, killed, synced, log>>
    /\ UNCHANGED <<tvars, pvars, lvars>>

\* Lines 361-362 / 402-403: host_queue.put(packet).
Put(a) ==
    /\ pc[a] = "put"
    /\ queue' = [queue EXCEPT ![local[a].host_queue] =
                    Append(@, Val(local[a].forward_packet))]
    /\ forwarded' = [forwarded EXCEPT ![a] = Min(@ + 1, HistCap)]
    /\ Outcome(a, "put")
    /\ Return(a)
    /\ UNCHANGED <<SPACE, alive, canvas, attrs, injected, killed, synced, log>>
    /\ UNCHANGED <<tvars, pvars, lvars>>

\* Mutant of RecvClear: the grid is left as it is.
RecvClear_keeps_content(a) ==
    /\ Receiving(a)
    /\ Log(a)
    /\ Dispatches(Head(queue[a])) /\ Head(queue[a]).cmd = "clear"
    /\ queue' = Pop(a)
    /\ Return(a)
    /\ UNCHANGED <<SPACE, alive, canvas, attrs, hist0>>
    /\ UNCHANGED <<tvars, pvars, lvars>>

\* "clear" (lines 407-408, clear_canvas 109-117).
RecvClear(a) ==
    /\ Receiving(a)
    /\ Log(a)
    /\ Dispatches(Head(queue[a])) /\ Head(queue[a]).cmd = "clear"
    /\ IF create_canvas_raises(height[a], width[a])
       THEN /\ UNCHANGED canvas
            /\ queue' = Pop(a)
       ELSE /\ canvas' = [canvas EXCEPT ![a] =
                  Some(create_canvas(a, OwnerOf(a), Val(height[a]), Val(width[a]),
                                     fill_value[a], VisibleOf(a)))]
            /\ queue' = Freeze(Pop(a), canvas, a)
    /\ Return(a)
    /\ UNCHANGED <<SPACE, alive, attrs, hist0>>
    /\ UNCHANGED <<tvars, pvars, lvars>>

\* "resize" (lines 410-413) and resize_canvas up to sync_to_space (222-242).
RecvResize(a) ==
    /\ Receiving(a)
    /\ Log(a)
    /\ LET p == Head(queue[a])
           h == p.args.height
           w == p.args.width
       IN
       /\ Dispatches(p) /\ p.cmd = "resize"
       /\ height' = [height EXCEPT ![a] = h]
       /\ width' = [width EXCEPT ![a] = w]
       /\ IF create_canvas_raises(h, w)
          THEN /\ UNCHANGED canvas
               /\ queue' = Pop(a)
               /\ Return(a)
          ELSE /\ canvas' = [canvas EXCEPT ![a] =
                     Some(create_canvas(a, OwnerOf(a), Val(h), Val(w),
                                        fill_value[a], VisibleOf(a)))]
               /\ queue' = Freeze(Pop(a), canvas, a)
               /\ Goto(a, "sync_to_space")
               /\ local' = [local EXCEPT ![a] = [NoLocal EXCEPT !.command = p.cmd]]
    /\ UNCHANGED <<SPACE, alive, host, origin_yx, fill_value, conversion_chart,
                   host_ref_canvas, host_height, host_width, hist0>>
    /\ UNCHANGED <<tvars, pvars, lvars>>

\* Mutant of SyncToSpace: the entry's height receives the width.
SyncToSpace_swapped(a) ==
    /\ pc[a] = "sync_to_space"
    /\ IF Registered(a)
       THEN /\ SPACE' = [SPACE EXCEPT ![a].height = width[a], ![a].width = width[a],
                                      ![a].visible = VisibleOf(a)]
            /\ synced' = [synced EXCEPT ![a] = Some(<<height[a], width[a]>>)]
            /\ IF host[a] # NoneStr
               THEN Goto(a, "sync_host") /\ UNCHANGED local
               ELSE Return(a)
       ELSE /\ UNCHANGED <<SPACE, synced>>
            /\ Return(a)
    /\ UNCHANGED <<alive, canvas, queue, attrs, injected, killed, forwarded, outcome, log>>
    /\ UNCHANGED <<tvars, pvars, lvars>>

\* sync_to_space (lines 92-105), then lines 246-247; KeyError when the id is
\* not registered.
SyncToSpace(a) ==
    /\ pc[a] = "sync_to_space"
    /\ IF Registered(a)
       THEN /\ SPACE' = [SPACE EXCEPT ![a].height = height[a], ![a].width = width[a],
                                      ![a].visible = VisibleOf(a)]
            /\ synced' = [synced EXCEPT ![a] = Some(<<height[a], width[a]>>)]
            /\ IF host[a] # NoneStr
               THEN Goto(a, "sync_host") /\ UNCHANGED local
               ELSE Return(a)
       ELSE /\ UNCHANGED <<SPACE, synced>>
            /\ Return(a)
    /\ UNCHANGED <<alive, canvas, queue, attrs, injected, killed, forwarded, outcome, log>>
    /\ UNCHANGED <<tvars, pvars, lvars>>

\* Mutant of RecvSetOrigin: the conversion chart is not regenerated.
RecvSetOrigin_keeps_chart(a) ==
    /\ Receiving(a)
    /\ Log(a)
    /\ LET p == Head(queue[a]) IN
       /\ Dispatches(p) /\ p.cmd = "set_origin"
       /\ origin_yx' = [origin_yx EXCEPT ![a] = p.args.yx]
       /\ Return(a)
    /\ queue' = Pop(a)
    /\ UNCHANGED <<SPACE, alive, canvas, host, height, width, fill_value, conversion_chart,
                   host_ref_canvas, host_height, host_width, hist0>>
    /\ UNCHANGED <<tvars, pvars, lvars>>

\* "set_origin" (lines 415-419) and set_origin up to sync_host (201-217).
RecvSetOrigin(a) ==
    /\ Receiving(a)
    /\ Log(a)
    /\ LET p == Head(queue[a]) IN
       /\ Dispatches(p) /\ p.cmd = "set_origin"
       /\ origin_yx' = [origin_yx EXCEPT ![a] = p.args.yx]
       /\ IF generate_coords_raises(p.args.yx, height[a], width[a])
          THEN /\ UNCHANGED conversion_chart
               /\ Return(a)
          ELSE /\ conversion_chart' = [conversion_chart EXCEPT ![a] =
                     Some(generate_coords(Val(p.args.yx), Val(height[a]), Val(width[a])))]
               /\ IF host[a] # NoneStr
                  THEN /\ Goto(a, "sync_host")
                       /\ local' = [local EXCEPT ![a] = [NoLocal EXCEPT !.command = p.cmd]]
                  ELSE Return(a)
    /\ queue' = Pop(a)
    /\ UNCHANGED <<SPACE, alive, canvas, host, height, width, fill_value,
                   host_ref_canvas, host_height, host_width, hist0>>
    /\ UNCHANGED <<tvars, pvars, lvars>>

\* "set_host" (lines 421-422): the call of set_host.
RecvSetHost(a) ==
    /\ Receiving(a)
    /\ Log(a)
    /\ LET p == Head(queue[a]) IN
       /\ Dispatches(p) /\ p.cmd = "set_host"
       /\ local' = [local EXCEPT ![a] =
             [NoLocal EXCEPT !.command = p.cmd, !.args_package = p.args]]
    /\ Goto(a, "set_host")
    /\ queue' = Pop(a)
    /\ UNCHANGED <<SPACE, alive, canvas, attrs, hist0>>
    /\ UNCHANGED <<tvars, pvars, lvars>>

\* Mutant of set_host: the host is assigned without the membership test.
set_host_unchecked(a, host_id) ==
    /\ host' = [host EXCEPT ![a] = host_id]
    /\ Goto(a, "sync_host")
    /\ UNCHANGED local

\* set_host (lines 181-198): the membership test under the lock, then the
\* assignment; sync_host follows as its own step.
set_host(a, host_id) ==
    IF ~Registered(host_id)
    THEN /\ Return(a)
         /\ UNCHANGED host
    ELSE /\ host' = [host EXCEPT ![a] = host_id]
         /\ Goto(a, "sync_host")
         /\ UNCHANGED local

SetHost(a) ==
    /\ pc[a] = "set_host"
    /\ set_host(a, local[a].args_package.host)
    /\ UNCHANGED <<SPACE, alive, canvas, queue, origin_yx, height, width, fill_value,
                   conversion_chart, host_ref_canvas, host_height, host_width, hist>>
    /\ UNCHANGED <<tvars, pvars, lvars>>

\* "set_fillvalue" (lines 424-425) and set_fillvalue up to sync_host (250-275).
RecvSetFillvalue(a) ==
    /\ Receiving(a)
    /\ Log(a)
    /\ LET p == Head(queue[a]) IN
       /\ Dispatches(p) /\ p.cmd = "set_fillvalue"
       /\ fill_value' = [fill_value EXCEPT ![a] = p.args.fillvalue]
       /\ IF create_canvas_raises(height[a], width[a])
          THEN /\ UNCHANGED canvas
               /\ queue' = Pop(a)
               /\ Return(a)
          ELSE /\ canvas' = [canvas EXCEPT ![a] =
                     Some(create_canvas(a, OwnerOf(a), Val(height[a]), Val(width[a]),
                                        p.args.fillvalue, VisibleOf(a)))]
               /\ queue' = Freeze(Pop(a), canvas, a)
               /\ IF host[a] # NoneStr
                  THEN /\ Goto(a, "sync_host")
                       /\ local' = [local EXCEPT ![a] = [NoLocal EXCEPT !.command = p.cmd]]
                  ELSE Return(a)
    /\ UNCHANGED <<SPACE, alive, host, origin_yx, height, width, conversion_chart,
                   host_ref_canvas, host_height, host_width, hist0>>
    /\ UNCHANGED <<tvars, pvars, lvars>>

\* "!kill" (lines 427-428): the call of kill.
RecvKill(a) ==
    /\ Receiving(a)
    /\ Log(a)
    /\ Dispatches(Head(queue[a])) /\ Head(queue[a]).cmd = "!kill"
    /\ local' = [local EXCEPT ![a] = [NoLocal EXCEPT !.command = "!kill"]]
    /\ Goto(a, "kill")
    /\ queue' = Pop(a)
    /\ UNCHANGED <<SPACE, alive, canvas, attrs, hist0>>
    /\ UNCHANGED <<tvars, pvars, lvars>>

\* Mutant of kill: the entry of the actor's host is popped as well.
kill_pops_host(a) ==
    /\ SPACE' = Remove(Remove(SPACE, a), host[a])
    /\ alive' = [alive EXCEPT ![a] = FALSE]

\* Mutant of kill: the liveness flag is left set.
kill_keeps_alive(a) ==
    /\ SPACE' = Remove(SPACE, a)
    /\ UNCHANGED alive

\* kill (lines 167-178).
kill(a) ==
    /\ SPACE' = Remove(SPACE, a)
    /\ alive' = [alive EXCEPT ![a] = FALSE]

Kill(a) ==
    /\ pc[a] = "kill"
    /\ kill(a)
    /\ killed' = killed \cup {a}
    /\ synced' = [synced EXCEPT ![a] = None]
    /\ Return(a)
    /\ UNCHANGED <<canvas, queue, attrs, injected, forwarded, outcome, log>>
    /\ UNCHANGED <<tvars, pvars, lvars>>



\* ------------------------------------------------------------------------
\* Specifications
\* ------------------------------------------------------------------------

\* Constructor arguments of one actor.
Args(h, yx, hgt, wid, fill) ==
    [host |-> h, origin_yx |-> yx, height |-> hgt, width |-> wid, fillvalue |-> fill]

\* The state in which the threads of the actors in S have all executed Start
\* and then InitSync (each host in S was registered when its child synced) and
\* stand at the top of their loop; the other actors' threads were not started.
\* Only for constructor arguments with numeric dimensions.
Started(cfg, S) ==
    LET hosted(a) == a \in S /\ cfg[a].host \in S
        H(a) == Val(cfg[a].height)
        W(a) == Val(cfg[a].width)
    IN
    /\ SPACE = [a \in S |-> Entry(a, cfg[a].height, cfg[a].width)]
    /\ alive = [a \in Ids |-> TRUE]
    /\ host = [a \in Ids |-> cfg[a].host]
    /\ origin_yx = [a \in Ids |-> Some(cfg[a].origin_yx)]
    /\ height = [a \in Ids |-> cfg[a].height]
    /\ width = [a \in Ids |-> cfg[a].width]
    /\ fill_value = [a \in Ids |-> cfg[a].fillvalue]
    /\ conversion_chart = [a \in Ids |->
          IF hosted(a) THEN Some(generate_coords(cfg[a].origin_yx, H(a), W(a))) ELSE None]
    /\ canvas = [a \in Ids |->
          IF a \in S
          THEN Some(create_canvas(a, OwnerOf(a), H(a), W(a), cfg[a].fillvalue, VisibleOf(a)))
          ELSE None]
    /\ host_ref_canvas = [a \in Ids |->
          IF hosted(a)
          THEN Some(box_borders(create_ref_canvas(H(cfg[a].host), W(cfg[a].host)),
                                cfg[a].origin_yx, H(a), W(a), BorderChar))
          ELSE None]
    /\ host_height = [a \in Ids |-> IF hosted(a) THEN cfg[cfg[a].host].height ELSE None]
    /\ host_width = [a \in Ids |-> IF hosted(a) THEN cfg[cfg[a].host].width ELSE None]
    /\ queue = [a \in Ids |-> <<>>]
    /\ pc = [a \in Ids |-> IF a \in S THEN "loop" ELSE "start"]
    /\ local = [a \in Ids |-> NoLocal]
    /\ injected = 0
    /\ killed = {}
    /\ forwarded = [a \in Ids |-> 0]
    /\ outcome = [a \in Ids |-> "none"]
    /\ synced = [a \in Ids |-> IF a \in S THEN Some(<<cfg[a].height, cfg[a].width>>) ELSE None]
    /\ log = [a \in Ids |-> <<>>]
    /\ TimersConstructed
    /\ CreatorConstructed
    /\ LockConstructed

\* The steps of run() outside parse_packet.
RunStep(a) ==
    \/ Start(a) \/ InitSync(a) \/ CheckAlive(a) \/ RecvTimeout(a) \/ Finally(a)

\* The steps of the two forwarding commands.
ForwardStep(a) ==
    \/ RecvForward(a) \/ CheckHost(a) \/ Lookup(a) \/ Put(a)

\* --- LifeSpec: threads start, resize, are killed or shut down.  c3 is
\* constructed with a height that is not a number.
LifeCfg ==
    [a \in Ids |-> IF a = "c1" THEN Args(NoneStr, <<1, 1>>, Some(1), Some(1), ".")
                   ELSE IF a = "c2" THEN Args("c1", <<1, 1>>, Some(1), Some(1), ".")
                   ELSE Args(NoneStr, <<1, 1>>, None, Some(1), ".")]

LifePackets == {PktKill, PktResize(1, 2)}

LifeInit == Constructed(LifeCfg)

LifeThread(a) ==
    \/ RunStep(a)
    \/ RecvResize(a) \/ SyncToSpace(a) \/ SyncHost(a)
    \/ RecvKill(a) \/ Kill(a)

LifeNext ==
    \/ Inject({"c1", "c2"}, LifePackets)
    \/ \E a \in Ids : Shutdown(a) \/ LifeThread(a)

LifeSpec == LifeInit /\ [][LifeNext]_vars

\* --- KillSpec: c1 and its child c2 run and are sent kill and write packets;
\* c3's thread is never started.
KillPackets == {PktKill, PktWrite(<< <<1, 1>> >>, << [char |-> "A"] >>)}

KillThread(a) ==
    \/ RunStep(a)
    \/ RecvWrite(a)
    \/ RecvKill(a) \/ Kill(a)

KillNext ==
    \/ Inject({"c1", "c2"}, KillPackets)
    \/ \E a \in {"c1", "c2"} : KillThread(a)

\* Every started thread keeps being scheduled.
KillSpec == LifeInit /\ [][KillNext]_vars /\ \A a \in {"c1", "c2"} : WF_vars(KillThread(a))

\* --- FwdSpec: c1 runs on its host c2; c2 names a host, c3, whose thread is
\* not started.  c1 is sent forwarding packets, c2 may be killed or shut down.
FwdCfg ==
    [a \in Ids |-> IF a = "c1" THEN Args("c2", <<1, 2>>, Some(2), Some(2), ".")
                   ELSE IF a = "c2" THEN Args("c3", <<1, 1>>, Some(2), Some(3), ".")
                   ELSE Args(NoneStr, <<1, 1>>, Some(1), Some(1), ".")]

FwdPackets ==
    { PktAutoForward(<< <<1, 1>> >>, << [char |-> "A"] >>),
      PktAutoForward(<< <<2, 2>>, <<1, 2>> >>, << [char |-> "B"], [char |-> "A"] >>),
      PktAutoForward(<< <<3, 1>> >>, << [char |-> "A"] >>),
      PktAutoForward(<< <<1, 1>> >>, << [char |-> "."] >>),
      PktForwardTo("c1", << <<1, 1>> >>, << [char |-> "A"] >>),
      PktForwardTo("c2", << <<1, 2>> >>, << [char |-> "B"] >>) }

FwdInit == Started(FwdCfg, {"c1", "c2"})

FwdThread(a) ==
    \/ CheckAlive(a) \/ RecvTimeout(a) \/ Finally(a)
    \/ ForwardStep(a)
    \/ RecvKill(a) \/ Kill(a)

FwdNext ==
    \/ Inject({"c1"}, FwdPackets)
    \/ Inject({"c2"}, {PktKill})
    \/ Shutdown("c2")
    \/ \E a \in {"c1", "c2"} : FwdThread(a)

FwdSpec == FwdInit /\ [][FwdNext]_vars

\* --- MalformedSpec: c1 and its child c2 start and run; c2 is sent packets
\* that are not command packets, or lack what their command needs, and a write.
\* An external caller may shut a thread down.
MalformedPackets ==
    { PktNotADict, PktNoCommand, PktEmptyCommand, PktUnknown,
      Packet("write", NoArgs, None, None),
      Packet("auto_forward", NoArgs, None, None),
      Packet("resize", NoArgs, None, None),
      Packet("set_origin", NoArgs, None, None),
      PktWrite(<< <<1, 1>> >>, << [char |-> "A"] >>) }

MalformedThread(a) ==
    \/ RunStep(a)
    \/ RecvIgnored(a) \/ RecvWrite(a) \/ RecvForward(a)
    \/ RecvResize(a) \/ RecvSetOrigin(a)

MalformedNext ==
    \/ Inject({"c2"}, MalformedPackets)
    \/ Shutdown("c2")
    \/ \E a \in {"c1", "c2"} : MalformedThread(a)

\* Every started thread keeps being scheduled.
MalformedSpec ==
    LifeInit /\ [][MalformedNext]_vars /\ \A a \in {"c1", "c2"} : WF_vars(MalformedThread(a))

\* --- HostSpec: c2 (constructed with host c1) is sent set_host packets naming
\* c1, the never started c3 and an id no actor has; c1 may be killed.
HostPackets == {PktSetHost("c1"), PktSetHost("c3"), PktSetHost(UnknownId)}

HostThread(a) ==
    \/ RunStep(a)
    \/ RecvSetHost(a) \/ SetHost(a) \/ SyncHost(a)
    \/ RecvKill(a) \/ Kill(a)

HostNext ==
    \/ Inject({"c2"}, HostPackets)
    \/ Inject({"c1"}, {PktKill})
    \/ \E a \in {"c1", "c2"} : HostThread(a)

HostSpec == LifeInit /\ [][HostNext]_vars

\* --- ChainSpec: three running actors, either the chain c1 -> c2 -> c3 (c2 is
\* narrower than c1 needs and is filled with "#") or the ring c1 -> c2 -> c3 ->
\* c1; c1 is sent auto_forward packets.
ChainCfg ==
    [a \in Ids |-> IF a = "c1" THEN Args("c2", <<1, 2>>, Some(1), Some(2), ".")
                   ELSE IF a = "c2" THEN Args("c3", <<1, 1>>, Some(1), Some(2), "#")
                   ELSE Args(NoneStr, <<1, 1>>, Some(1), Some(3), ".")]

RingCfg == [ChainCfg EXCEPT !["c3"].host = "c1"]

ChainPackets ==
    { PktAutoForward(<< <<1, 1>> >>, << [char |-> "A"] >>),
      PktAutoForward(<< <<1, 1>> >>, << [char |-> "#"] >>),
      PktAutoForward(<< <<1, 2>> >>, << [char |-> "B"] >>) }

ChainInit == Started(ChainCfg, Ids) \/ Started(RingCfg, Ids)

ChainThread(a) == CheckAlive(a) \/ RecvTimeout(a) \/ ForwardStep(a)

ChainNext ==
    \/ Inject({"c1"}, ChainPackets)
    \/ \E a \in Ids : ChainThread(a)

\* Every running thread keeps being scheduled.
ChainSpec == ChainInit /\ [][ChainNext]_vars /\ \A a \in Ids : WF_vars(ChainThread(a))

\* --- RehostSpec: c1 (1 x 2) and the hostless c2 run; c2 is sent
\* set_host("c1") while c1 may be resized or killed.
RehostCfg ==
    [a \in Ids |-> IF a = "c1" THEN Args(NoneStr, <<1, 1>>, Some(1), Some(2), ".")
                   ELSE Args(NoneStr, <<1, 1>>, Some(1), Some(1), ".")]

RehostInit == Started(RehostCfg, {"c1", "c2"})

RehostThread(a) ==
    \/ CheckAlive(a) \/ RecvTimeout(a) \/ Finally(a)
    \/ RecvSetHost(a) \/ SetHost(a) \/ SyncHost(a)
    \/ RecvResize(a) \/ SyncToSpace(a)
    \/ RecvKill(a) \/ Kill(a)

RehostNext ==
    \/ Inject({"c2"}, {PktSetHost("c1")})
    \/ Inject({"c1"}, {PktKill, PktResize(2, 2)})
    \/ \E a \in {"c1", "c2"} : RehostThread(a)

RehostSpec == RehostInit /\ [][RehostNext]_vars

\* --- ResizeSpec: c1 (2 x 2, on its host c2) is sent a write and resize
\* packets, some with a dimension that is not positive.
ResizePackets ==
    { PktWrite(<< <<1, 1>> >>, << [char |-> "A"] >>),
      PktResize(1, 2), PktResize(0, 2), PktResize(1, 0) }

ResizeThread(a) ==
    \/ CheckAlive(a) \/ RecvTimeout(a)
    \/ RecvWrite(a)
    \/ RecvResize(a) \/ SyncToSpace(a) \/ SyncHost(a)

ResizeNext ==
    \/ Inject({"c1"}, ResizePackets)
    \/ \E a \in {"c1", "c2"} : ResizeThread(a)

ResizeSpec == FwdInit /\ [][ResizeNext]_vars

\* --- TimerSpec: the log hub's timer is given events and callbacks and is
\* polled while time passes.  Time is counted in ticks; intervals are ticks.
EventNames == {"ping", "pong"}

\* Bound on the clock.
MaxTime == 7

\* timer.event(act, name=interval) by the timer's owner.
TimerEvent(t) ==
    /\ \E act \in {NoneStr, "f"}, name \in EventNames, interval \in {Some(1), Some(2), None} :
          /\ timer_events' = [timer_events EXCEPT ![t] = event(@, act, name, interval)]
          /\ scheduled' = IF IsNone(interval) THEN scheduled
                          ELSE [scheduled EXCEPT ![t] = (name :> now) @@ @]
    /\ UNCHANGED <<now, invoked, avars, pvars, lvars>>

\* timer.action(name=act) by the timer's owner.
TimerAction(t) ==
    /\ \E name \in EventNames, act \in {"f", NoneStr} :
          timer_events' = [timer_events EXCEPT ![t] = action(@, name, act)]
    /\ UNCHANGED <<now, invoked, scheduled, avars, pvars, lvars>>

\* timer.update_timer() by the timer's owner.
TimerPoll(t) ==
    /\ timer_events' = [timer_events EXCEPT ![t] = update_timer(@, now).events]
    /\ invoked' = [invoked EXCEPT ![t] = update_timer(timer_events[t], now).invoked]
    /\ UNCHANGED <<now, scheduled, avars, pvars, lvars>>

\* Time passes: time.time() grows by some d of D, up to limit.
Advance(D, limit) ==
    /\ \E d \in D : now + d <= limit /\ now' = now + d
    /\ UNCHANGED <<timer_events, invoked, scheduled, avars, pvars, lvars>>

TimerNext ==
    \/ TimerEvent("loghub") \/ TimerAction("loghub") \/ TimerPoll("loghub")
    \/ Advance(1..MaxTime, MaxTime)

TimerSpec == LifeInit /\ [][TimerNext]_vars

\* --- FlushSpec: c1 and c2 start and run while time passes by the interval
\* of their log event; they may be shut down.
FlushNext ==
    \/ Advance({LogInterval}, 2 * LogInterval)
    \/ \E a \in {"c1", "c2"} : RunStep(a) \/ Shutdown(a)

FlushSpec == LifeInit /\ [][FlushNext]_vars

\* --- LockSpec: c1 and its child c2 start and run (c3's construction
\* fails); both are sent forwarding, resize, set_host and kill packets, so
\* that every block under SPACE_LOCK is entered.
RegistryOps == {"lookup", "insert", "update", "remove"}

\* Mutant of LockSection: host_queue.put(packet) moved into the `with
\* SPACE_LOCK:` block of the lookup before it.
LockSection_put_inside(where) ==
    CASE where = "start" -> {"insert"}
      [] where \in {"init_sync", "sync_host", "check_host", "set_host"} -> {"lookup"}
      [] where = "lookup" -> {"lookup", "mailbox"}
      [] where = "sync_to_space" -> {"update"}
      [] where \in {"kill", "finally"} -> {"remove"}
      [] OTHER -> {}

\* What the step that starts at program point `where` does inside its
\* `with SPACE_LOCK:` block: run 449-458 inserts the entry; sync_host 149-150,
\* check_host 128-130, set_host 191-194 and the forwarding commands 359-360,
\* 400-401 look an entry up; sync_to_space 100-105 updates the own entry; kill
\* 175-176 and the finally block 489-490 pop it.  The other steps take no lock.
LockSection(where) ==
    CASE where = "start" -> {"insert"}
      [] where \in {"init_sync", "sync_host", "check_host", "set_host"} -> {"lookup"}
      [] where = "lookup" -> {"lookup"}
      [] where = "sync_to_space" -> {"update"}
      [] where \in {"kill", "finally"} -> {"remove"}
      [] OTHER -> {}

\* What the same step does after the lock is released (or without a lock):
\* queue.get at 484, host_queue.put at 361-362 and 402-403; create_canvas at
\* 459-466, the overlay of sync_host at 156-164, the scan of the own grid at
\* 378-388 and the handlers that write, clear or rebuild the own grid.
Unlocked(where) ==
    CASE where = "recv" -> {"mailbox", "grid"}
      [] where = "put" -> {"mailbox"}
      [] where \in {"start", "init_sync", "sync_host", "check_host"} -> {"grid"}
      [] OTHER -> {}

LockPackets ==
    { PktAutoForward(<< <<1, 1>> >>, << [char |-> "A"] >>),
      PktWrite(<< <<1, 1>> >>, << [char |-> "A"] >>),
      PktResize(1, 2), PktSetHost("c1"), PktKill }

LockThread(a) ==
    \/ RunStep(a)
    \/ RecvWrite(a) \/ ForwardStep(a)
    \/ RecvResize(a) \/ SyncToSpace(a) \/ SyncHost(a)
    \/ RecvSetHost(a) \/ SetHost(a)
    \/ RecvKill(a) \/ Kill(a)

LockNext ==
    \/ Inject({"c1", "c2"}, LockPackets)
    \/ \E a \in Ids : LockThread(a)

LockSpec == LifeInit /\ [][LockNext]_vars

\* --- ShutdownSpec: c1 and c2 run; write and resize packets keep
\* arriving at c2 without end, and an external caller may clear the liveness
\* flag of either actor at any time.
ShutdownPackets ==
    { PktWrite(<< <<1, 1>> >>, << [char |-> "A"] >>), PktResize(1, 2) }

ShutdownThread(a) ==
    \/ CheckAlive(a) \/ RecvTimeout(a) \/ Finally(a)
    \/ RecvWrite(a)
    \/ RecvResize(a) \/ SyncToSpace(a)

ShutdownNext ==
    \/ Arrive({"c2"}, ShutdownPackets)
    \/ \E a \in {"c1", "c2"} : Shutdown(a) \/ ShutdownThread(a)

\* Every started thread keeps being scheduled.
ShutdownSpec ==
    RehostInit /\ [][ShutdownNext]_vars /\ \A a \in {"c1", "c2"} : WF_vars(ShutdownThread(a))

\* --- ZipSpec: c1 (2 x 2, on its host c2, 2 x 3) is sent write and
\* auto_forward packets whose chart and metadata differ in length, name
\* cells outside the grid, name a cell twice, or give some fields only.
ZipLists ==
    { << << <<1, 1>>, <<2, 2>>, <<3, 1>> >>,
         << [char |-> "A"], [char |-> "B"], [char |-> "C"] >> >>,
      << << <<1, 1>>, <<1, 2>> >>, << [char |-> "A"] >> >>,
      << << <<2, 1>> >>, << [char |-> "A", owner |-> "guest"], [char |-> "B"] >> >>,
      << << <<1, 2>>, <<0, 1>> >>, << [visible |-> FALSE], [char |-> "A"] >> >>,
      << << <<0, 1>>, <<1, 3>> >>, << [char |-> "A"], [char |-> "B"] >> >>,
      << << <<1, 1>>, <<1, 1>> >>, << [char |-> "A"], [char |-> "B", visible |-> FALSE] >> >>,
      << <<>>, << [char |-> "A"] >> >> }

ZipPackets ==
    {PktWrite(l[1], l[2]) : l \in ZipLists} \cup {PktAutoForward(l[1], l[2]) : l \in ZipLists}

ZipThread(a) ==
    \/ CheckAlive(a) \/ RecvTimeout(a)
    \/ RecvWrite(a)
    \/ ForwardStep(a)

ZipNext ==
    \/ Inject({"c1"}, ZipPackets)
    \/ \E a \in {"c1", "c2"} : ZipThread(a)

ZipSpec == FwdInit /\ [][ZipNext]_vars

\* --- WrapSpec: a caller moves the packet creator's content origin, sets its
\* target width and has it compose write packets for messages.  A message
\* is a sequence of characters, "\n" being the newline.
MaxLen == 3

Alphabet == {"A", "B", "\n"}

Messages ==
    UNION {[1..n -> Alphabet] : n \in 0..MaxLen}
      \cup { <<"A", "B", "\n", "C", "D">>, <<"A", "B", "C", "D", "E">> }

\* Mutant of write_to_canvas: the metadata loop does not skip newlines.
write_to_canvas_keeps_newlines(origin, wrap_width, message) ==
    IF Len(message) > 0
    THEN Some(PktWrite(generate_wrapped_chart(origin, message, wrap_width),
                       [i \in 1..Len(message) |-> [char |-> message[i]]]))
    ELSE None

\* PACKET_CREATOR.write_to_canvas(message) (template None): None for an empty
\* message, else the write packet of the wrapped chart and one {"char": c}
\* per character that is not a newline.
write_to_canvas(origin, wrap_width, message) ==
    IF Len(message) > 0
    THEN LET letters == SelectSeq(message, LAMBDA c : c # "\n")
         IN  Some(PktWrite(generate_wrapped_chart(origin, message, wrap_width),
                           [i \in 1..Len(letters) |-> [char |-> letters[i]]]))
    ELSE None

\* PACKET_CREATOR.set_content_origin(origin): any pair of integers.
SetContentOrigin ==
    /\ \E origin \in {<<1, 1>>, <<2, 3>>, <<0, -1>>} : content_origin' = origin
    /\ UNCHANGED <<target_width, composed, avars, tvars, lvars>>

\* PACKET_CREATOR.set_target_width(width): kept only if width > 0.
SetTargetWidth ==
    /\ \E w \in {0, 1, 2, 3, 10} : target_width' = IF w > 0 THEN w ELSE target_width
    /\ UNCHANGED <<content_origin, composed, avars, tvars, lvars>>

\* PACKET_CREATOR.write_to_canvas(message): what was asked and what it returned.
WriteToCanvas ==
    /\ \E message \in Messages :
          composed' = Some([message |-> message, origin |-> content_origin,
                            width |-> target_width,
                            packet |-> write_to_canvas(content_origin, target_width, message)])
    /\ UNCHANGED <<content_origin, target_width, avars, tvars, lvars>>

WrapNext == SetContentOrigin \/ SetTargetWidth \/ WriteToCanvas

WrapSpec == LifeInit /\ [][WrapNext]_vars

\* --- BuilderSpec: a caller has the packet creator compose write,
\* auto_forward and forward_to packets for messages with newlines and
\* puts what it returns into c1's mailbox; c1 (on its host c2) and c2
\* dispatch them.

\* PACKET_CREATOR.auto_forward(message): write_to_canvas's packet, renamed.
auto_forward(origin, wrap_width, message) ==
    LET packet == write_to_canvas(origin, wrap_width, message)
    IN  IF IsNone(packet) THEN None
        ELSE Some([Val(packet) EXCEPT !.cmd = "auto_forward"])

\* PACKET_CREATOR.forward_to(target_id, message).
forward_to(origin, wrap_width, target_id, message) ==
    LET packet == write_to_canvas(origin, wrap_width, message)
    IN  IF IsNone(packet) THEN None
        ELSE Some([Val(packet) EXCEPT !.cmd = "forward_to",
                                      !.args = [NoArgs EXCEPT !.canvas_id = target_id]])

PostMessages == { <<"\n">>, <<"A", "\n", "B">>, <<"A", "B", "C">> }

\* What the creator's method returns for the message.
Composes(method, origin, wrap_width, message) ==
    CASE method = "write_to_canvas" -> write_to_canvas(origin, wrap_width, message)
      [] method = "auto_forward" -> auto_forward(origin, wrap_width, message)
      [] method = "forward_to" -> forward_to(origin, wrap_width, "c2", message)

\* A caller sets the target width, has the creator compose a packet for a
\* message and puts the packet into the mailbox of an actor of T.
Post(T) ==
    /\ injected < MaxInject
    /\ \E a \in T, message \in PostMessages, w \in {2, 8},
          method \in {"write_to_canvas", "auto_forward", "forward_to"} :
          LET packet == Composes(method, content_origin, w, message) IN
          /\ target_width' = w
          /\ composed' = Some([message |-> message, origin |-> content_origin,
                               width |-> w, packet |-> packet])
          /\ queue' = [queue EXCEPT ![a] = Append(@, Val(packet))]
    /\ injected' = injected + 1
    /\ UNCHANGED <<SPACE, alive, canvas, pc, local, attrs, killed, forwarded, outcome, synced, log>>
    /\ UNCHANGED <<tvars, content_origin, lvars>>

BuilderThread(a) ==
    \/ CheckAlive(a) \/ RecvTimeout(a)
    \/ RecvWrite(a)
    \/ ForwardStep(a)

BuilderNext ==
    \/ Post({"c1"})
    \/ \E a \in {"c1", "c2"} : BuilderThread(a)

BuilderSpec == FwdInit /\ [][BuilderNext]_vars

\* --- DirectSpec: the threads of c1, c2 and c3 are constructed and may
\* start; before an actor's thread starts, a caller may call the actor's
\* resize_canvas method itself.

\* A caller calls a.resize_canvas(h, w) (lines 222-247) on an actor whose
\* thread has not started.  Such an actor has no registry entry, so
\* sync_to_space's SPACE[self.canvas_id] raises KeyError, which leaves
\* resize_canvas at line 243, before the host sync, and reaches the caller.
CallResize(a) ==
    /\ pc[a] = "start" /\ ~Registered(a)
    /\ \E h \in {1, 2}, w \in {1, 2} :
          /\ height' = [height EXCEPT ![a] = Some(h)]
          /\ width' = [width EXCEPT ![a] = Some(w)]
          /\ canvas' = [canvas EXCEPT ![a] =
                Some(create_canvas(a, OwnerOf(a), h, w, fill_value[a], VisibleOf(a)))]
    /\ Outcome(a, "resize_raised")
    /\ UNCHANGED <<SPACE, alive, queue, pc, local, host, origin_yx, fill_value,
                   conversion_chart, host_ref_canvas, host_height, host_width,
                   injected, killed, forwarded, synced, log>>
    /\ UNCHANGED <<tvars, pvars, lvars>>

DirectNext ==
    \/ CallResize("c2")
    \/ Shutdown("c1")
    \/ \E a \in Ids : RunStep(a)

DirectSpec == LifeInit /\ [][DirectNext]_vars

\* --- ClearSpec: c1 (2 x 2, on its host c2) is sent write, clear, resize
\* and set_fillvalue packets.
ClearPackets ==
    { PktWrite(<< <<1, 1>>, <<2, 2>> >>, << [char |-> "A"], [char |-> "B", visible |-> FALSE] >>),
      PktClear, PktResize(1, 2), PktSetFillvalue("#") }

ClearThread(a) ==
    \/ CheckAlive(a) \/ RecvTimeout(a)
    \/ RecvWrite(a) \/ RecvClear(a)
    \/ RecvResize(a) \/ SyncToSpace(a) \/ SyncHost(a)
    \/ RecvSetFillvalue(a)

ClearNext ==
    \/ Inject({"c1"}, ClearPackets)
    \/ \E a \in {"c1", "c2"} : ClearThread(a)

ClearSpec == FwdInit /\ [][ClearNext]_vars

\* --- OriginSpec: c1 (2 x 2, on its host c2, 2 x 3) is moved on its host,
\* also to zero and negative coordinates, and is sent auto_forward packets.
OriginPackets ==
    { PktSetOrigin(0, -1), PktSetOrigin(2, 3), PktSetOrigin(1, 1),
      PktAutoForward(<< <<1, 1>>, <<2, 2>> >>, << [char |-> "A"], [char |-> "B"] >>) }

OriginThread(a) ==
    \/ CheckAlive(a) \/ RecvTimeout(a)
    \/ RecvSetOrigin(a) \/ SyncHost(a)
    \/ ForwardStep(a)

OriginNext ==
    \/ Inject({"c1"}, OriginPackets)
    \/ \E a \in {"c1", "c2"} : OriginThread(a)

OriginSpec == FwdInit /\ [][OriginNext]_vars

\* --- GeometrySpec: c1 (2 x 2) runs on its host c2 (2 x 3), whose own host c3
\* is not registered; both are sent resize (also without arguments or without
\* a width), set_origin, set_fillvalue and set_host packets.
GeometryPackets ==
    { PktResize(1, 2),
      Packet("resize", NoArgs, None, None),
      Packet("resize", [NoArgs EXCEPT !.height = Some(1)], None, None),
      PktSetOrigin(2, 1), PktSetFillvalue("#"), PktSetHost("c2") }

GeometryThread(a) ==
    \/ CheckAlive(a) \/ RecvTimeout(a)
    \/ RecvResize(a) \/ SyncToSpace(a) \/ SyncHost(a)
    \/ RecvSetOrigin(a) \/ RecvSetFillvalue(a)
    \/ RecvSetHost(a) \/ SetHost(a)

GeometryNext ==
    \/ Inject({"c1", "c2"}, GeometryPackets)
    \/ \E a \in {"c1", "c2"} : GeometryThread(a)

GeometrySpec == FwdInit /\ [][GeometryNext]_vars

\* --- TargetSpec: the running chain c1 -> c2 -> c3; c1 is sent forward_to
\* packets that name c2 or c3 (one writes only c1's fill character), and c2
\* may be killed.
TargetPackets ==
    { PktForwardTo("c2", << <<1, 1>> >>, << [char |-> "A"] >>),
      PktForwardTo("c3", << <<1, 1>> >>, << [char |-> "B"] >>),
      PktForwardTo("c2", << <<1, 1>> >>, << [char |-> "."] >>) }

TargetThread(a) ==
    \/ CheckAlive(a) \/ RecvTimeout(a) \/ Finally(a)
    \/ ForwardStep(a)
    \/ RecvKill(a) \/ Kill(a)

TargetNext ==
    \/ Inject({"c1"}, TargetPackets)
    \/ Inject({"c2"}, {PktKill})
    \/ \E a \in Ids : TargetThread(a)

TargetInit == Started(ChainCfg, Ids)

TargetSpec == TargetInit /\ [][TargetNext]_vars

\* --- RaceSpec: c1 (on its host c2, 2 x 3) is sent set_origin packets, which
\* make it sync with its host, while c2 is sent resize(1, 2).
RaceThread(a) ==
    \/ CheckAlive(a) \/ RecvTimeout(a)
    \/ RecvResize(a) \/ SyncToSpace(a)
    \/ RecvSetOrigin(a)
    \/ SyncHostGet(a) \/ ReadHostHeight(a) \/ ReadHostWidth(a)

RaceNext ==
    \/ Inject({"c1"}, {PktSetOrigin(2, 1), PktSetOrigin(1, 1)})
    \/ Inject({"c2"}, {PktResize(1, 2)})
    \/ \E a \in {"c1", "c2"} : RaceThread(a)

RaceSpec == FwdInit /\ [][RaceNext]_vars

\* --- MutexSpec: the threads of FwdSpec with SPACE_LOCK made explicit: a
\* step that contains a `with SPACE_LOCK:` block is preceded by the
\* acquisition of the mutex and followed by its release.  c1 is sent
\* auto_forward and set_host packets, its host c2 may be killed.

\* The step a's thread is about to take enters a `with SPACE_LOCK:` block
\* (check_host and sync_host return before theirs when no host is set).
NeedsLock(a) ==
    /\ LockSection(pc[a]) # {}
    /\ pc[a] \in {"init_sync", "sync_host", "check_host"} => host[a] # NoneStr

Holds(a) == SPACE_LOCK.holder = a

\* Entering `with SPACE_LOCK:`: the thread waits until the mutex is free.
Acquire(a) ==
    /\ NeedsLock(a)
    /\ SPACE_LOCK = Unheld
    /\ SPACE_LOCK' = [holder |-> a, at |-> pc[a]]
    /\ UNCHANGED <<avars, tvars, pvars>>

\* Mutant of Release: the mutex is released only when the block was left
\* normally, not when the lookup in it raised.
Release_unless_raised(a) ==
    /\ Holds(a) /\ pc[a] # SPACE_LOCK.at
    /\ outcome[a] # "lookup_raised"
    /\ SPACE_LOCK' = Unheld
    /\ UNCHANGED <<avars, tvars, pvars>>

\* Leaving `with SPACE_LOCK:`, by its end, by a return or by an exception.
Release(a) ==
    /\ Holds(a) /\ pc[a] # SPACE_LOCK.at
    /\ SPACE_LOCK' = Unheld
    /\ UNCHANGED <<avars, tvars, pvars>>

\* a's thread may take its next step: it holds the mutex for the block the
\* step contains, or the step contains no block and a holds nothing.
Turn(a) ==
    IF NeedsLock(a) THEN Holds(a) /\ pc[a] = SPACE_LOCK.at ELSE ~Holds(a)

\* The steps of the thread, each in its turn.
MutexCheckAlive(a) == Turn(a) /\ CheckAlive(a)
MutexRecvTimeout(a) == Turn(a) /\ RecvTimeout(a)
MutexFinally(a) == Turn(a) /\ Finally(a)
MutexRecvForward(a) == Turn(a) /\ RecvForward(a)
MutexCheckHost(a) == Turn(a) /\ CheckHost(a)
MutexLookup(a) == Turn(a) /\ Lookup(a)
MutexPut(a) == Turn(a) /\ Put(a)
MutexRecvSetHost(a) == Turn(a) /\ RecvSetHost(a)
MutexSetHost(a) == Turn(a) /\ SetHost(a)
MutexSyncHost(a) == Turn(a) /\ SyncHost(a)
MutexRecvKill(a) == Turn(a) /\ RecvKill(a)
MutexKill(a) == Turn(a) /\ Kill(a)

MutexThread(a) ==
    \/ Acquire(a) \/ Release(a)
    \/ MutexCheckAlive(a) \/ MutexRecvTimeout(a) \/ MutexFinally(a)
    \/ MutexRecvForward(a) \/ MutexCheckHost(a) \/ MutexLookup(a) \/ MutexPut(a)
    \/ MutexRecvSetHost(a) \/ MutexSetHost(a) \/ MutexSyncHost(a)
    \/ MutexRecvKill(a) \/ MutexKill(a)

MutexPackets ==
    { PktAutoForward(<< <<1, 1>> >>, << [char |-> "A"] >>),
      PktSetHost("c2"), PktSetHost("c3") }

MutexNext ==
    \/ Inject({"c1"}, MutexPackets)
    \/ Inject({"c2"}, {PktKill})
    \/ \E a \in {"c1", "c2"} : MutexThread(a)

\* Every thread keeps being scheduled, and a thread that finds the mutex free
\* again and again gets it.
MutexSpec ==
    /\ FwdInit /\ [][MutexNext]_vars
    /\ \A a \in {"c1", "c2"} : WF_vars(MutexThread(a)) /\ SF_vars(Acquire(a))

\* --- PollSpec: c1 and c2 run while time passes by the interval of their log
\* event; the owner of c1 attaches a callback to that event, one that returns
\* or one that raises, and c1 is sent write packets.

\* thread.timer.action(logevent=act) by the actor's owner.
AttachCallback(a) ==
    /\ \E act \in {"f", "boom"} :
          /\ timer_events[a]["logevent"].action # act
          /\ timer_events' = [timer_events EXCEPT ![a] = action(@, "logevent", act)]
    /\ UNCHANGED <<now, invoked, scheduled, avars, pvars, lvars>>

PollThread(a) == CheckAlive(a) \/ RecvTimeout(a) \/ RecvWrite(a)

PollNext ==
    \/ AttachCallback("c1")
    \/ Advance({LogInterval}, 2 * LogInterval)
    \/ Inject({"c1"}, {PktWrite(<< <<1, 1>> >>, << [char |-> "A"] >>)})
    \/ \E a \in {"c1", "c2"} : PollThread(a)

PollSpec == FwdInit /\ [][PollNext]_vars

\* ------------------------------------------------------------------------
\* Claims
\* ------------------------------------------------------------------------

\* C1: once an actor has executed the kill command its id is absent from the
\* registry and its liveness flag is cleared, it takes no further packet, and
\* its run loop ends (run() returns).
C1_KillRemovesAndStops ==
    \A a \in Ids :
        /\ [](a \in killed => /\ ~Registered(a)
                              /\ ~alive[a]
                              /\ pc[a] \in {"loop", "finally", "done"})
        /\ (a \in killed ~> pc[a] = "done")

C1_Witness == \E a \in Ids : a \in killed /\ pc[a] = "done" /\ ~Registered(a)

\* C7: whatever the interleaving of the actors' register, update and remove
\* steps, the registry holds exactly the entries of the actors that have
\* registered and not removed themselves, each with the id, owner, mailbox and
\* thread of its actor and the dimensions that actor last wrote.
C7_RegistryHoldsOwnEntries ==
    /\ DOMAIN SPACE = {a \in Ids : ~IsNone(synced[a])}
    /\ \A a \in DOMAIN SPACE :
          SPACE[a] = [id |-> a, owner |-> OwnerOf(a), height |-> Val(synced[a])[1],
                      width |-> Val(synced[a])[2], visible |-> VisibleOf(a),
                      queue |-> a, thread_obj |-> a]

C7_Witness ==
    /\ Registered("c1") /\ SPACE["c1"].width = Some(2)
    /\ "c2" \in killed /\ ~Registered("c2")
    /\ Registered("c3")

\* C8: when run() has returned, the registry has no entry under the actor's id.
C8_ReturnedMeansUnregistered ==
    \A a \in Ids : pc[a] = "done" => ~Registered(a)


\* --- Vocabulary of the forwarding claims --------------------------------

\* Actor a's thread takes a step.
Acts(a) == pc'[a] # pc[a]

\* The cell at yx once the pairs i, i+1, ... of zip(chart, mds) are merged.
RECURSIVE Merged(_, _, _, _, _)
Merged(cell, chart, mds, yx, i) ==
    IF i > Min(Len(chart), Len(mds)) THEN cell
    ELSE Merged(IF chart[i] = yx THEN mds[i] @@ cell ELSE cell, chart, mds, yx, i + 1)

\* The step wrote packet p's cells to a's grid and touched no other grid.
WroteCells(a, p) ==
    LET old == Val(canvas[a])
        new == Val(canvas'[a])
        mds == [i \in 1..Len(Val(p.metadata)) |-> Deref(canvas, Val(p.metadata)[i])]
    IN  /\ DOMAIN new = DOMAIN old
        /\ \A y \in DOMAIN old :
              /\ DOMAIN new[y] = DOMAIN old[y]
              /\ \A x \in DOMAIN old[y] :
                    new[y][x] = Merged(old[y][x], Val(p.chart), mds, <<y, x>>, 1)
        /\ \A b \in Ids \ {a} : canvas'[b] = canvas[b]

\* How many pairs of zip(chart, metadata) fall inside a's grid.
InGridPairs(a, p) ==
    Cardinality({i \in 1..Min(Len(Val(p.chart)), Len(Val(p.metadata))) :
                    InBuffer(Val(canvas[a]), Val(p.chart)[i][1], Val(p.chart)[i][2])})

\* The local coordinates of a whose character differs from a's fill character.
NonFill(a) ==
    {yx \in (1..Val(height[a])) \X (1..Val(width[a])) :
        Val(canvas[a])[yx[1]][yx[2]].char # fill_value[a]}

RowMajorBefore(p, q) == p[1] < q[1] \/ (p[1] = q[1] /\ p[2] < q[2])

\* pkt is the auto_forward packet of a's grid: the non-fill coordinates in
\* row-major order, translated by a's origin, each with that cell.
ExpectedForward(a, pkt) ==
    LET cells == NonFill(a)
        o == Val(origin_yx[a])
    IN  /\ pkt.isdict /\ pkt.block = "present"
        /\ pkt.cmd = "auto_forward" /\ pkt.args = NoArgs
        /\ ~IsNone(pkt.chart) /\ ~IsNone(pkt.metadata)
        /\ Len(Val(pkt.chart)) = Cardinality(cells)
        /\ Len(Val(pkt.metadata)) = Cardinality(cells)
        /\ \A yx \in cells :
              LET i == 1 + Cardinality({q \in cells : RowMajorBefore(q, yx)})
              IN  /\ Val(pkt.chart)[i] = <<o[1] + yx[1] - 1, o[2] + yx[2] - 1>>
                  /\ Val(pkt.metadata)[i] = CellRef(a, yx[1], yx[2])

\* C3: an actor that dispatches a forward_to packet whose target id is its own
\* id writes the packet's cells to its own grid and ends the handling there:
\* no mailbox receives anything (its own loses the packet taken), whether or
\* not the actor has a registered host.
C3_TargetReachedStops ==
    [][\A a \in Ids :
          (/\ Receiving(a) /\ Acts(a)
           /\ Dispatches(Head(queue[a]))
           /\ Head(queue[a]).cmd = "forward_to"
           /\ Head(queue[a]).args.canvas_id = a
           /\ ~zip_raises(Head(queue[a])))
          => /\ WroteCells(a, Head(queue[a]))
             /\ queue' = Pop(a)
             /\ pc'[a] = "loop"
             /\ local'[a] = NoLocal
             /\ forwarded' = forwarded]_vars

\* C3 witness: c1, whose host c2 is registered, has handled forward_to(c1): the
\* cell is written and c1 never enqueued anything.
C3_Witness ==
    /\ pc["c1"] = "loop"
    /\ Len(log["c1"]) = 1
    /\ log["c1"][1].cmd = "forward_to" /\ log["c1"][1].args.canvas_id = "c1"
    /\ host["c1"] = "c2" /\ Registered("c2")
    /\ Val(canvas["c1"])[1][1].char = "A"
    /\ forwarded["c1"] = 0 /\ queue["c2"] = <<>>

\* C4 (as stated): on auto_forward, a registered host and at least one written
\* cell always lead to the packet being enqueued; otherwise nothing is.
C4_Original ==
    [][\A a \in Ids :
          /\ (pc[a] = "check_host" /\ local[a].command = "auto_forward" /\ Acts(a))
             => IF check_host(a) /\ local[a].written > 0
                THEN pc'[a] = "lookup"
                ELSE pc'[a] = "loop"
          /\ (pc[a] = "lookup" /\ local[a].command = "auto_forward" /\ Acts(a))
             => pc'[a] = "put"]_vars

\* C4 (amended): on dispatching auto_forward an actor writes the packet's cells
\* to its own grid.  If its host is registered, at least one cell was written
\* and at least one cell of the grid differs from the fill character, it builds
\* the auto_forward packet of its grid (row-major non-fill coordinates,
\* translated by the origin, each with its cell); if the host is still
\* registered when the mailbox is looked up, exactly that one packet is put in
\* the host's mailbox.  In every other case nothing is enqueued.
C4_AutoForward ==
    [][\A a \in Ids :
          /\ (/\ Receiving(a) /\ Acts(a)
              /\ Dispatches(Head(queue[a]))
              /\ Head(queue[a]).cmd = "auto_forward"
              /\ ~zip_raises(Head(queue[a])))
             => /\ WroteCells(a, Head(queue[a]))
                /\ queue' = Pop(a)
                /\ pc'[a] = "check_host"
                /\ local'[a].written = InGridPairs(a, Head(queue[a]))
          /\ (pc[a] = "check_host" /\ local[a].command = "auto_forward" /\ Acts(a))
             => /\ queue' = queue /\ canvas' = canvas
                /\ IF check_host(a) /\ local[a].written > 0 /\ NonFill(a) # {}
                   THEN /\ pc'[a] = "lookup"
                        /\ ExpectedForward(a, Val(local'[a].forward_packet))
                   ELSE pc'[a] = "loop" /\ local'[a] = NoLocal
          /\ (pc[a] = "lookup" /\ local[a].command = "auto_forward" /\ Acts(a))
             => /\ queue' = queue /\ canvas' = canvas
                /\ IF Registered(host[a])
                   THEN /\ pc'[a] = "put"
                        /\ local'[a].forward_packet = local[a].forward_packet
                   ELSE pc'[a] = "loop" /\ local'[a] = NoLocal
          /\ (pc[a] = "put" /\ local[a].command = "auto_forward" /\ Acts(a))
             => /\ queue' = [queue EXCEPT ![host[a]] =
                                Append(@, Val(local[a].forward_packet))]
                /\ canvas' = canvas
                /\ pc'[a] = "loop" /\ local'[a] = NoLocal]_vars

\* C4 witness: c1 has forwarded two cells written out of row-major order; the
\* packet in c2's mailbox lists them row-major, shifted by c1's origin (1, 2).
C4_Witness ==
    /\ outcome["c1"] = "put" /\ pc["c1"] = "loop"
    /\ Len(queue["c2"]) = 1
    /\ queue["c2"][1].cmd = "auto_forward"
    /\ Val(queue["c2"][1].chart) = << <<1, 3>>, <<2, 3>> >>
    /\ Val(queue["c2"][1].metadata) = << CellRef("c1", 1, 2), CellRef("c1", 2, 2) >>
    /\ Val(canvas["c1"])[1][2].char = "A" /\ Val(canvas["c1"])[2][2].char = "B"

\* C9 (as stated): once the host's entry is gone, at whatever point of the
\* child's forwarding, the child enqueues nothing.
C9_Original ==
    [][\A a \in Ids :
          (/\ pc[a] \in {"check_host", "lookup", "put"}
           /\ ~Registered(host[a])
           /\ Acts(a))
          => queue' = queue]_vars

\* C9 (amended): if the host's entry is removed before the child looks up the
\* host's mailbox (before or after the child's host-existence check), the
\* child enqueues no packet, does not retry, keeps the cells it wrote, stays
\* running and is back at the top of its loop.  (Removed after the lookup, the
\* packet is put into the removed host's mailbox.)
C9_HostGoneBeforeLookup ==
    [][\A a \in Ids :
          /\ (/\ pc[a] \in {"check_host", "lookup"}
              /\ ~Registered(host[a])
              /\ Acts(a))
             => /\ queue' = queue
                /\ forwarded' = forwarded
                /\ canvas' = canvas
                /\ alive'[a] = alive[a]
                /\ pc'[a] = "loop" /\ local'[a] = NoLocal
          /\ (pc[a] = "put" /\ ~Registered(host[a]) /\ Acts(a))
             => Len(queue'[host[a]]) = Len(queue[host[a]]) + 1]_vars

\* C9 witness: c1 passed the host check, then found c2's entry gone at the
\* mailbox lookup; it is back in its loop with its cell and c2's mailbox holds
\* no forwarded packet.
C9_Witness ==
    /\ outcome["c1"] = "lookup_raised"
    /\ pc["c1"] = "recv" /\ alive["c1"] /\ Registered("c1")
    /\ ~Registered("c2")
    /\ NonFill("c1") # {}
    /\ forwarded["c1"] = 0
    /\ \A i \in 1..Len(queue["c2"]) : queue["c2"][i].cmd = "!kill"


\* A packet that is not a dict, has no command block, names no known command,
\* lacks the chart or metadata its command zips, or lacks the arguments its
\* command reads.
Malformed(p) ==
    \/ ~p.isdict
    \/ p.block # "present"
    \/ p.cmd \notin KnownCommands
    \/ p.cmd \in {"write", "forward_to", "auto_forward"} /\ zip_raises(p)
    \/ p.cmd \in {"resize", "set_origin"} /\ p.args = NoArgs

\* C6: no packet taken from the mailbox ends the actor's loop.  The step that
\* handles a malformed packet leaves the actor at the top of its loop, running
\* (its liveness flag as it was) and registered; no step of a thread clears a
\* liveness flag, and a thread leaves its loop only with the flag cleared; a
\* started thread is registered until it has left the loop; every packet in the
\* mailbox of a thread that is not shut down is eventually taken.
C6_MalformedKeepsLoop ==
    /\ [][\A a \in Ids :
            /\ (Receiving(a) /\ Acts(a) /\ Malformed(Head(queue[a])))
               => /\ pc'[a] = "loop"
                  /\ alive' = alive /\ Registered(a)'
                  /\ SPACE' = SPACE /\ canvas' = canvas
                  /\ queue' = Pop(a)
            /\ (alive[a] /\ ~alive'[a]) => pc' = pc]_vars
    /\ [](\A a \in Ids : /\ alive[a] => pc[a] \notin {"finally", "done"}
                         /\ pc[a] \notin {"start", "done"} => Registered(a))
    /\ \A a \in {"c1", "c2"} : (queue[a] # <<>>) ~> (queue[a] = <<>> \/ ~alive[a])

\* C6 witness: c2 took a packet without a command block, then the write after
\* it, which reached the grid; c2 is still registered and running.
C6_Witness ==
    /\ Len(log["c2"]) = 2
    /\ log["c2"][1].cmd = NoneStr /\ log["c2"][2].cmd = "write"
    /\ Val(canvas["c2"])[1][1].char = "A"
    /\ Registered("c2") /\ alive["c2"] /\ pc["c2"] = "loop"

\* The attributes set_host and the sync_host it calls may assign.
HostView(a) ==
    <<host[a], host_height[a], host_width[a], host_ref_canvas[a], conversion_chart[a]>>

\* C10: set_host(host_id) with host_id absent from the registry at set_host's
\* membership test changes nothing: dispatching the packet and the test leave
\* the host reference, the recorded host height and width, the overlay and the
\* conversion chart as they were, and the actor is back at the top of its loop.
C10_SetHostAbsentChangesNothing ==
    [][\A a \in Ids :
          /\ (/\ Receiving(a) /\ Acts(a)
              /\ Dispatches(Head(queue[a])) /\ Head(queue[a]).cmd = "set_host")
             => /\ HostView(a)' = HostView(a)
                /\ pc'[a] = "set_host"
          /\ (/\ pc[a] = "set_host" /\ Acts(a)
              /\ ~Registered(local[a].args_package.host))
             => /\ HostView(a)' = HostView(a)
                /\ pc'[a] = "loop" /\ local'[a] = NoLocal
                /\ SPACE' = SPACE /\ alive' = alive
                /\ canvas' = canvas /\ queue' = queue]_vars

\* C10 witness: c2, synced to its host c1, has handled set_host of an id no
\* actor has and still refers to c1 with c1's recorded size.
C10_Witness ==
    /\ pc["c2"] = "loop"
    /\ log["c2"] # <<>>
    /\ log["c2"][Len(log["c2"])].cmd = "set_host"
    /\ log["c2"][Len(log["c2"])].args.host = UnknownId
    /\ host["c2"] = "c1"
    /\ host_height["c2"] = Some(1) /\ host_width["c2"] = Some(1)
    /\ ~IsNone(host_ref_canvas["c2"]) /\ ~IsNone(conversion_chart["c2"])


\* The hosts above a, following at most n host references.
RECURSIVE Ancestors(_, _)
Ancestors(a, n) ==
    IF n = 0 \/ host[a] \notin Ids THEN {}
    ELSE {host[a]} \cup Ancestors(host[a], n - 1)

\* The host relation is a forest.
AcyclicHosts == \A a \in Ids : a \notin Ancestors(a, Cardinality(Ids))

\* Nothing is pending: every mailbox is empty and every thread waits.
Quiet == \A a \in Ids : queue[a] = <<>> /\ pc[a] \in {"loop", "recv"}

\* C2: when the host relation is acyclic, the auto_forward packets injected
\* produce finitely many forwarded packets: an actor forwards at most once per
\* injected packet and per packet it took, a root forwards nothing; no actor
\* puts a packet into its own mailbox; and the system reaches, and stays in, a
\* state where no packet is pending.
C2_AcyclicForwardingEnds ==
    /\ [](AcyclicHosts =>
             \A a \in Ids : /\ forwarded[a] <= injected
                            /\ forwarded[a] <= Len(log[a])
                            /\ host[a] = NoneStr => forwarded[a] = 0
                            /\ pc[a] = "put" => local[a].host_queue # a)
    /\ [][AcyclicHosts =>
             \A a \in Ids : Acts(a) => Len(queue'[a]) <= Len(queue[a])]_vars
    /\ (AcyclicHosts => <>[]Quiet)

\* C2 witness: in the chain, one injected packet was forwarded by c1 and by
\* c2, reached the root c3, and nothing is pending.
C2_Witness ==
    /\ AcyclicHosts /\ Quiet
    /\ injected = 1
    /\ forwarded = [a \in Ids |-> IF a = "c3" THEN 0 ELSE 1]
    /\ Len(log["c3"]) = 1

\* The character a's grid shows at yx.
CharAt(a, yx) == Val(canvas[a])[yx[1]][yx[2]].char
InGrid(a, yx) == InBuffer(Val(canvas[a]), yx[1], yx[2])
Translate(a, yx) == <<Val(origin_yx[a])[1] + yx[1] - 1, Val(origin_yx[a])[2] + yx[2] - 1>>

\* ch, shown by a at yx, is shown by every ancestor of a whose grid holds the
\* translated coordinate.
RECURSIVE ShownAbove(_, _, _, _)
ShownAbove(a, yx, ch, n) ==
    \/ n = 0 \/ host[a] \notin Ids
    \/ /\ InGrid(host[a], Translate(a, yx)) => CharAt(host[a], Translate(a, yx)) = ch
       /\ ShownAbove(host[a], Translate(a, yx), ch, n - 1)

\* The same, as far up as the coordinate stays inside the grids on the way
\* and ch is not the fill character of an actor on the way.
RECURSIVE ShownAboveWhileCarried(_, _, _, _)
ShownAboveWhileCarried(a, yx, ch, n) ==
    \/ n = 0 \/ host[a] \notin Ids
    \/ InGrid(host[a], Translate(a, yx)) =>
          /\ CharAt(host[a], Translate(a, yx)) = ch
          /\ ch # fill_value[host[a]] =>
                ShownAboveWhileCarried(host[a], Translate(a, yx), ch, n - 1)

IsChain == host["c1"] = "c2" /\ host["c2"] = "c3" /\ host["c3"] = NoneStr

\* C5 (as stated): in the chain, once nothing is pending, every non-fill cell
\* of the child shows in each ancestor whose grid holds its translated
\* coordinate.
C5_Original ==
    (IsChain /\ Quiet) =>
        \A yx \in NonFill("c1") : ShownAbove("c1", yx, CharAt("c1", yx), 2)

\* C5 (amended): in the chain c1 -> c2 -> c3 with auto_forward packets sent to
\* the child only, once nothing is pending, every non-fill cell of the child
\* shows the same character in an ancestor, at the coordinate obtained by
\* adding the origin offsets of the actors below that ancestor, provided the
\* translated coordinate lies inside the grid of every actor on the way up to
\* and including that ancestor and the character is not the fill character of
\* an actor strictly between the child and that ancestor.
C5_ChainReflectsCarriedCells ==
    (IsChain /\ Quiet) =>
        \A a \in Ids : \A yx \in NonFill(a) :
            ShownAboveWhileCarried(a, yx, CharAt(a, yx), 2)

\* C5 witness: the child's "A" at (1, 1) shows at (1, 2) in c2 and in c3.
C5_Witness ==
    /\ IsChain /\ Quiet
    /\ CharAt("c1", <<1, 1>>) = "A"
    /\ CharAt("c2", <<1, 2>>) = "A"
    /\ CharAt("c3", <<1, 2>>) = "A"


\* C11: whenever a set_host dispatch has assigned the host reference, at the
\* end of the dispatch (the return of the sync_host it calls) the host is
\* registered, the recorded host height and width are those of its registry
\* entry, and the overlay has those dimensions with the actor's border drawn
\* at its origin.
C11_SetHostResyncs ==
    [][\A a \in Ids :
          (pc[a] = "sync_host" /\ local[a].command = "set_host" /\ Acts(a))
          => /\ host'[a] \in DOMAIN SPACE'
             /\ host_height'[a] = SPACE'[host'[a]].height
             /\ host_width'[a] = SPACE'[host'[a]].width
             /\ host_ref_canvas'[a] =
                   Some(box_borders(create_ref_canvas(Val(host_height'[a]), Val(host_width'[a])),
                                    Val(origin_yx'[a]), Val(height'[a]), Val(width'[a]),
                                    BorderChar))]_vars


\* grid has exactly h x w cells, each a new cell of a with character fill.
FreshGrid(grid, a, fill, h, w) ==
    /\ DOMAIN grid = 1..h
    /\ \A y \in 1..h :
          /\ DOMAIN grid[y] = 1..w
          /\ \A x \in 1..w :
                grid[y][x] = [char |-> fill, owner |-> OwnerOf(a),
                              visible |-> VisibleOf(a), canvas_id |-> a]

\* The packet at the head of a's mailbox is resize(h, w) with numbers h, w.
ResizeHead(a) ==
    /\ Receiving(a)
    /\ Dispatches(Head(queue[a])) /\ Head(queue[a]).cmd = "resize"
    /\ ~IsNone(Head(queue[a]).args.height) /\ ~IsNone(Head(queue[a]).args.width)

\* C12: a registered actor that dispatches resize(h, w) with h, w > 0 gets a
\* grid of exactly h x w cells, all with the current fill character; its
\* registry entry then receives height h and width w and keeps its other
\* fields; the host sync that may follow touches neither.  An actor about to
\* update its entry is registered.
C12_ResizeRebuildsAndRegisters ==
    /\ [][\A a \in Ids :
            /\ (/\ ResizeHead(a) /\ Acts(a)
                /\ Val(Head(queue[a]).args.height) > 0
                /\ Val(Head(queue[a]).args.width) > 0)
               => /\ height'[a] = Head(queue[a]).args.height
                  /\ width'[a] = Head(queue[a]).args.width
                  /\ FreshGrid(Val(canvas'[a]), a, fill_value'[a],
                               Val(Head(queue[a]).args.height),
                               Val(Head(queue[a]).args.width))
                  /\ SPACE' = SPACE
                  /\ pc'[a] = "sync_to_space"
            /\ (pc[a] = "sync_to_space" /\ Acts(a))
               => /\ SPACE' = [SPACE EXCEPT ![a] =
                        [id |-> SPACE[a].id, owner |-> SPACE[a].owner,
                         height |-> height[a], width |-> width[a],
                         visible |-> SPACE[a].visible, queue |-> SPACE[a].queue,
                         thread_obj |-> SPACE[a].thread_obj]]
                  /\ canvas' = canvas
                  /\ height' = height /\ width' = width
            /\ (pc[a] = "sync_host" /\ Acts(a))
               => /\ SPACE' = SPACE /\ canvas' = canvas
                  /\ height' = height /\ width' = width
                  /\ pc'[a] = "loop"]_vars
    /\ [](\A a \in Ids : pc[a] = "sync_to_space" => Registered(a))

\* C12 witness: c1 wrote "A", then was resized from 2 x 2 to 1 x 2: the grid
\* is new, the entry has the new size, and the dispatch is over.
C12_Witness ==
    /\ pc["c1"] = "loop"
    /\ Len(log["c1"]) = 2
    /\ log["c1"][1].cmd = "write" /\ log["c1"][2].cmd = "resize"
    /\ FreshGrid(Val(canvas["c1"]), "c1", fill_value["c1"], 1, 2)
    /\ SPACE["c1"] = Entry("c1", Some(1), Some(2))

\* C13: a resize whose height or width is not positive fails as an operation
\* only: the actor's height, width, grid and registry entry keep their values
\* and the actor is back at the top of its loop.
C13_NonPositiveResizeRejected ==
    [][\A a \in Ids :
          (/\ ResizeHead(a) /\ Acts(a)
           /\ \/ Val(Head(queue[a]).args.height) <= 0
              \/ Val(Head(queue[a]).args.width) <= 0)
          => /\ height'[a] = height[a] /\ width'[a] = width[a]
             /\ canvas'[a] = canvas[a]
             /\ SPACE' = SPACE
             /\ pc'[a] = "loop"]_vars


C15_CatchUpInOnePoll ==
    [][\A t \in Timers :
          TimerPoll(t) =>
             \A n \in DOMAIN timer_events[t] :
                (/\ timer_events[t][n].action # NoneStr
                 /\ 2 * (now - timer_events[t][n].last_trigger)
                       = 7 * timer_events[t][n].interval)
                => /\ invoked'[t][n] = 3
                   /\ timer_events'[t][n].last_trigger =
                         timer_events[t][n].last_trigger + 3 * timer_events[t][n].interval]_vars

\* C16: the event an actor schedules at construction with a name, an interval
\* and a callback has its callback invoked by a poll of the actor's loop at
\* which the event is due.
C16_ScheduledCallbackRuns ==
    [][\A a \in Ids :
          (/\ pc[a] = "loop" /\ pc'[a] = "recv"
           /\ now - timer_events[a]["logevent"].last_trigger >= LogInterval)
          => invoked'[a]["logevent"] >= 1]_vars

C18_ClearedFlagEndsActor ==
    \A a \in {"c1", "c2"} :
        (~alive[a]) ~> [](pc[a] = "done" /\ ~Registered(a))

\* c2 has left its loop and the registry with packets still waiting in its
\* mailbox, and c1 with an empty one.
C18_Witness ==
    /\ ~alive["c2"] /\ pc["c2"] = "done" /\ ~Registered("c2") /\ queue["c2"] # <<>>
    /\ ~alive["c1"] /\ pc["c1"] = "done" /\ ~Registered("c1") /\ queue["c1"] = <<>>

\* The number of pairs of zip(chart, metadata), and how many of them name a
\* cell outside a's grid.
Pairs(p) == Min(Len(Val(p.chart)), Len(Val(p.metadata)))
OutOfGridPairs(a, p) ==
    Cardinality({i \in 1..Pairs(p) :
                    ~InBuffer(Val(canvas[a]), Val(p.chart)[i][1], Val(p.chart)[i][2])})

\* C19: zip_and_write pairs chart and metadata positionally up to the shorter
\* list and returns the number of pairs whose coordinate is inside the grid
\* (N - K for N pairs of which K are outside, so N when none is); each pair
\* inside the grid merges its fields into that cell, fields not given keep
\* their value, and every other cell of every grid is unchanged.  Stated on
\* the two handlers that call it: write, and auto_forward, which keeps the
\* returned count.
C19_ZipAndWriteCountsAndMerges ==
    [][\A a \in Ids :
          (/\ Receiving(a) /\ Acts(a)
           /\ Dispatches(Head(queue[a]))
           /\ Head(queue[a]).cmd \in {"write", "auto_forward"}
           /\ ~zip_raises(Head(queue[a])))
          => LET p == Head(queue[a]) IN
             /\ WroteCells(a, p)
             /\ zip_and_write(canvas, a, Val(p.chart), Val(p.metadata)).count
                   = Pairs(p) - OutOfGridPairs(a, p)
             /\ p.cmd = "auto_forward" =>
                   local'[a].written = Pairs(p) - OutOfGridPairs(a, p)]_vars

\* c1 has merged two of the three pairs of an auto_forward packet, the third
\* being outside its grid: the cells keep the fields the packet did not give.
C19_Witness ==
    /\ pc["c1"] = "check_host" /\ local["c1"].written = 2
    /\ Len(log["c1"]) = 1
    /\ Val(canvas["c1"])[1][1] = [NewCell("c1", OwnerOf("c1"), ".", VisibleOf("c1")) EXCEPT !.char = "A"]
    /\ Val(canvas["c1"])[2][2] = [NewCell("c1", OwnerOf("c1"), ".", VisibleOf("c1")) EXCEPT !.char = "B"]

\* The positions of the characters of text that are not newlines, the
\* newlines before position i, and the first position of the line of i.
Letters(text) == {i \in 1..Len(text) : text[i] # "\n"}
NewlinesBefore(text, i) == {m \in 1..(i - 1) : text[m] = "\n"}
LineStart(text, i) ==
    IF NewlinesBefore(text, i) = {} THEN 1
    ELSE 1 + CHOOSE m \in NewlinesBefore(text, i) : \A n \in NewlinesBefore(text, i) : n <= m

\* The rows used up by wrapping in the lines that the newlines of S end: one
\* for every w-th character of the line.
RECURSIVE WrapsIn(_, _, _)
WrapsIn(text, w, S) ==
    IF S = {} THEN 0
    ELSE LET m == CHOOSE m \in S : TRUE
         IN  ((m - LineStart(text, m)) \div w) + WrapsIn(text, w, S \ {m})

\* Where the character at position i of text goes: k characters into its
\* line it is k % w columns right of the origin column, and below the origin
\* row by one row per newline before it and one per w-th character before it.
WrappedAt(origin, text, w, i) ==
    LET k == i - LineStart(text, i)
        before == NewlinesBefore(text, i)
    IN  << origin[1] + Cardinality(before) + WrapsIn(text, w, before) + (k \div w),
           origin[2] + (k % w) >>

\* C20: for every origin, text and width >= 1 the wrapped chart has one
\* coordinate per character that is not a newline, in text order, starting at
\* the origin; the column returns to the origin column and the row advances
\* by one after every width-th character of a line and at every newline.
\* ((1,1), "AB\nCD", 10) gives (1,1),(1,2),(2,1),(2,2) and ((1,1), "ABCDE", 2)
\* gives (1,1),(1,2),(2,1),(2,2),(3,1).
C20_WrappedChart ==
    composed # None =>
       LET text == Val(composed).message
           origin == Val(composed).origin
           w == Val(composed).width
           chart == generate_wrapped_chart(origin, text, w)
       IN  /\ w >= 1
           /\ Len(chart) = Cardinality(Letters(text))
           /\ \A i \in Letters(text) :
                 chart[Cardinality({m \in Letters(text) : m <= i})] = WrappedAt(origin, text, w, i)
           /\ text # <<>> => Val(Val(composed).packet).chart = Some(chart)
           /\ (origin = <<1, 1>> /\ text = <<"A", "B", "\n", "C", "D">> /\ w = 10)
                 => chart = << <<1, 1>>, <<1, 2>>, <<2, 1>>, <<2, 2>> >>
           /\ (origin = <<1, 1>> /\ text = <<"A", "B", "C", "D", "E">> /\ w = 2)
                 => chart = << <<1, 1>>, <<1, 2>>, <<2, 1>>, <<2, 2>>, <<3, 1>> >>

\* The creator has composed "ABCDE" at origin (1,1) with width 2: the packet's
\* chart wraps twice.
C20_Witness ==
    /\ composed # None
    /\ Val(composed).message = <<"A", "B", "C", "D", "E">>
    /\ Val(composed).origin = <<1, 1>> /\ Val(composed).width = 2
    /\ Val(Val(composed).packet).chart
          = Some(<< <<1, 1>>, <<1, 2>>, <<2, 1>>, <<2, 2>>, <<3, 1>> >>)

\* A packet that carries a chart carries metadata of the same length.
ChartMatchesMetadata(p) ==
    ~IsNone(p.chart) => (~IsNone(p.metadata) /\ Len(Val(p.metadata)) = Len(Val(p.chart)))

\* C21: every packet that carries a chart has metadata of the same length:
\* the write, auto_forward and forward_to packets the packet creator returns
\* for a non-empty message, newlines included, and every packet an actor
\* builds for and enqueues to its host when forwarding.
C21_ChartAndMetadataSameLength ==
    /\ (composed # None /\ Val(composed).message # <<>>) =>
          /\ Val(composed).packet # None
          /\ ~IsNone(Val(Val(composed).packet).chart)
          /\ ChartMatchesMetadata(Val(Val(composed).packet))
    /\ \A a \in Ids :
          /\ \A i \in 1..Len(queue[a]) : ChartMatchesMetadata(queue[a][i])
          /\ ~IsNone(local[a].forward_packet) =>
                /\ ~IsNone(Val(local[a].forward_packet).chart)
                /\ ChartMatchesMetadata(Val(local[a].forward_packet))

\* c2 holds a packet c1 forwarded for a message with a newline in it, and
\* the creator last composed a forward_to packet for a message of letters and
\* a newline.
C21_Witness ==
    /\ forwarded["c1"] = 1 /\ queue["c2"] # <<>>
    /\ Len(Val(queue["c2"][1].chart)) = 2
    /\ composed # None
    /\ Val(composed).message = <<"A", "\n", "B">>
    /\ Val(Val(composed).packet).cmd = "forward_to"

\* The cell data item j of packet p gives to the actor that dispatches it.
ReadFrom(canv, p, j) == Deref(canv, Val(p.metadata)[j])

\* C22: a forwarded packet is an immutable copy: the cell data its receiver
\* reads from it at dispatch is the sender's cell data of the moment it was
\* enqueued.  While a packet waits in a mailbox, no step changes what would
\* be read from it, whatever the sender writes to its own cells meanwhile.
C22_ForwardedPacketIsACopy ==
    [][\A b \in Ids :
          Len(queue'[b]) >= Len(queue[b]) =>
             \A i \in 1..Len(queue[b]) :
                ~IsNone(queue[b][i].metadata) =>
                   /\ ~IsNone(queue'[b][i].metadata)
                   /\ Len(Val(queue'[b][i].metadata)) = Len(Val(queue[b][i].metadata))
                   /\ \A j \in 1..Len(Val(queue[b][i].metadata)) :
                         ReadFrom(canvas', queue'[b][i], j) = ReadFrom(canvas, queue[b][i], j)]_vars

\* C23: in every reachable state the host relation among the actors is a
\* forest: no actor is its own host and no chain of host references leads
\* back to the actor it starts from.
C23_HostsFormAForest ==
    \A a \in Ids : host[a] # a /\ a \notin Ancestors(a, Cardinality(Ids))

\* C24: an actor's grid changes only in that actor's own dispatch of a packet
\* from its own mailbox (or when its thread creates the grid at its start):
\* a step of actor a, a forward to b included, leaves every cell of b's grid
\* as it is.
C24_GridChangesOnlyInOwnDispatch ==
    [][\A b \in Ids :
          canvas'[b] # canvas[b] =>
             /\ Acts(b)
             /\ Receiving(b) \/ pc[b] = "start"
             /\ \A a \in Ids \ {b} : pc'[a] = pc[a] /\ canvas'[a] = canvas[a]]_vars

\* c2 has written "A" and forwarded the cell to its host c1; the packet waits
\* in c1's mailbox and c1's grid still shows its fill character.
C24_Witness ==
    /\ forwarded["c2"] = 1
    /\ queue["c1"] # <<>> /\ Head(queue["c1"]).cmd = "auto_forward"
    /\ Val(Head(queue["c1"]).chart) = << <<1, 1>> >>
    /\ Val(canvas["c2"])[1][1].char = "A"
    /\ Val(canvas["c1"])[1][1].char = "."

\* The registry entry under id b in registry space, if any.
EntryOf(space, b) == IF b \in DOMAIN space THEN Some(space[b]) ELSE None

\* C25: the registry entry of an actor is written, updated or removed by that
\* actor only, in its start, its sync_to_space, its kill or its exit: no step
\* of another actor (start, resize, kill, exit) changes or removes it.
C25_OnlyOwnerWritesEntry ==
    [][\A b \in Ids :
          EntryOf(SPACE', b) # EntryOf(SPACE, b) =>
             /\ Acts(b)
             /\ pc[b] \in {"start", "sync_to_space", "kill", "finally"}
             /\ \A a \in Ids \ {b} : pc'[a] = pc[a]]_vars

\* c1 has been killed and has left, c2 (whose host c1 was) has been resized:
\* c2's entry is there with its new width.
C25_Witness ==
    /\ "c1" \in killed /\ pc["c1"] = "done" /\ ~Registered("c1")
    /\ Registered("c2") /\ SPACE["c2"].width = Some(2)
    /\ host["c2"] = "c1"

\* C26: updating the registry fields of an id that is absent from the
\* registry is a silent no-op: the registry is unchanged and no error reaches
\* the operation that asked for the update, here a resize of an actor that
\* has no entry; the resize goes on to its host sync.
C26_UpdateOfAbsentIdIsSilent ==
    [][\A a \in Ids :
          CallResize(a) =>
             /\ SPACE' = SPACE
             /\ outcome'[a] # "resize_raised"
             /\ check_host(a) => host_height'[a] = SPACE[host[a]].height]_vars

\* C27: dispatching a write packet changes only the cells of the actor's own
\* grid that in-bounds chart coordinates name; nothing is put into any
\* mailbox, even with a registered host, the handling ends there, and the
\* registry, the actor's host, origin, dimensions, fill character and
\* liveness flag stay as they are.
C27_WriteTouchesOwnGridOnly ==
    [][\A a \in Ids :
          (/\ Receiving(a) /\ Acts(a)
           /\ Dispatches(Head(queue[a]))
           /\ Head(queue[a]).cmd = "write"
           /\ ~zip_raises(Head(queue[a])))
          => /\ WroteCells(a, Head(queue[a]))
             /\ queue' = Pop(a)
             /\ forwarded' = forwarded
             /\ pc'[a] = "loop" /\ local'[a] = NoLocal
             /\ SPACE' = SPACE /\ alive' = alive
             /\ host' = host /\ origin_yx' = origin_yx
             /\ height' = height /\ width' = width /\ fill_value' = fill_value]_vars

\* c1, whose host c2 is registered, has dispatched one write packet with a
\* coordinate outside its grid: the cell inside is written, nothing was
\* forwarded and c2's mailbox is empty.
C27_Witness ==
    /\ pc["c1"] = "loop"
    /\ Len(log["c1"]) = 1 /\ log["c1"][1].cmd = "write"
    /\ injected = 1
    /\ host["c1"] = "c2" /\ Registered("c2")
    /\ Val(canvas["c1"])[1][2].visible = FALSE
    /\ forwarded["c1"] = 0 /\ queue["c2"] = <<>>

\* C28: after an actor dispatches clear, its grid has a cell at exactly the
\* coordinates [1..height] x [1..width] of its current dimensions and every
\* cell holds its current fill character; its dimensions, fill character,
\* origin, host and registry entry are unchanged, and so are the mailboxes but
\* for the packet taken.
C28_ClearRebuildsGrid ==
    [][\A a \in Ids :
          (/\ Receiving(a) /\ Acts(a)
           /\ Dispatches(Head(queue[a]))
           /\ Head(queue[a]).cmd = "clear"
           /\ ~create_canvas_raises(height[a], width[a]))
          => /\ FreshGrid(Val(canvas'[a]), a, fill_value[a], Val(height[a]), Val(width[a]))
             /\ height' = height /\ width' = width /\ fill_value' = fill_value
             /\ origin_yx' = origin_yx /\ host' = host
             /\ SPACE' = SPACE
             /\ queue' = Pop(a)
             /\ pc'[a] = "loop"
             /\ \A b \in Ids \ {a} : canvas'[b] = canvas[b]]_vars

\* c1 has written "A" and "B" to its grid and has then dispatched clear: its
\* 2 x 2 grid shows its fill character everywhere.
C28_Witness ==
    /\ pc["c1"] = "loop"
    /\ Len(log["c1"]) = 2
    /\ log["c1"][1].cmd = "write" /\ log["c1"][2].cmd = "clear"
    /\ FreshGrid(Val(canvas["c1"]), "c1", ".", 2, 2)

\* C29: dispatching a packet whose command name is not a recognised command,
\* or whose command block is empty, is a no-op: the actor's grid, dimensions,
\* origin, host, fill character and liveness flag, the registry and the
\* mailboxes (but for the packet taken) are unchanged.
C29_UnknownCommandIsNoOp ==
    [][\A a \in Ids :
          (/\ Receiving(a) /\ Acts(a)
           /\ Head(queue[a]).isdict
           /\ \/ Head(queue[a]).block = "empty"
              \/ Head(queue[a]).block = "present" /\ Head(queue[a]).cmd \notin KnownCommands)
          => /\ canvas' = canvas
             /\ height' = height /\ width' = width /\ origin_yx' = origin_yx
             /\ host' = host /\ fill_value' = fill_value /\ alive' = alive
             /\ host_ref_canvas' = host_ref_canvas /\ conversion_chart' = conversion_chart
             /\ SPACE' = SPACE
             /\ queue' = Pop(a)
             /\ pc'[a] = "loop" /\ local'[a] = NoLocal]_vars

\* c2 has written "A", then taken a packet with an unknown command: the "A"
\* is still there and c2 is back at the top of its loop.
C29_Witness ==
    /\ Len(log["c2"]) = 2
    /\ log["c2"][1].cmd = "write" /\ log["c2"][2].cmd = "blink"
    /\ Val(canvas["c2"])[1][1].char = "A"
    /\ pc["c2"] = "loop" /\ alive["c2"] /\ queue["c2"] = <<>>

\* The row-major list of (y + i, x + j) for 0 <= i < h, 0 <= j < w.
ExpectedCoords(y, x, h, w) ==
    [k \in 1..(h * w) |-> <<y + ((k - 1) \div w), x + ((k - 1) % w)>>]

\* C30: after an actor dispatches set_origin(y, x), for any integers, its
\* origin is (y, x) and its conversion chart is the row-major list of
\* (y + i, x + j) for 0 <= i < height, 0 <= j < width, also after the host
\* sync that ends the dispatch; grid, dimensions, fill character and registry
\* are unchanged, and a later forward translates by the new origin.
C30_SetOriginMovesActor ==
    [][\A a \in Ids :
          /\ (/\ Receiving(a) /\ Acts(a)
              /\ Dispatches(Head(queue[a]))
              /\ Head(queue[a]).cmd = "set_origin"
              /\ ~IsNone(Head(queue[a]).args.yx))
             => LET yx == Val(Head(queue[a]).args.yx) IN
                /\ origin_yx'[a] = Some(yx)
                /\ conversion_chart'[a] =
                      Some(ExpectedCoords(yx[1], yx[2], Val(height[a]), Val(width[a])))
                /\ canvas' = canvas /\ height' = height /\ width' = width
                /\ fill_value' = fill_value /\ SPACE' = SPACE
                /\ pc'[a] = IF host[a] # NoneStr THEN "sync_host" ELSE "loop"
          /\ (pc[a] = "sync_host" /\ local[a].command = "set_origin" /\ Acts(a))
             => /\ origin_yx' = origin_yx
                /\ conversion_chart'[a] =
                      Some(ExpectedCoords(Val(origin_yx[a])[1], Val(origin_yx[a])[2],
                                          Val(height[a]), Val(width[a])))
                /\ canvas' = canvas /\ height' = height /\ width' = width
                /\ fill_value' = fill_value /\ SPACE' = SPACE
                /\ pc'[a] = "loop"
          /\ (/\ pc[a] = "check_host" /\ local[a].command = "auto_forward" /\ Acts(a)
              /\ pc'[a] = "lookup")
             => ExpectedForward(a, Val(local'[a].forward_packet))]_vars

\* c1 has been moved to (0, -1) and has then forwarded its cells "A" at (1, 1)
\* and "B" at (2, 2): the packet in c2's mailbox names (0, -1) and (1, 0).
C30_Witness ==
    /\ origin_yx["c1"] = Some(<<0, -1>>)
    /\ conversion_chart["c1"] = Some(<< <<0, -1>>, <<0, 0>>, <<1, -1>>, <<1, 0>> >>)
    /\ Len(log["c1"]) = 2 /\ log["c1"][1].cmd = "set_origin"
    /\ forwarded["c1"] = 1 /\ Len(queue["c2"]) = 1
    /\ Val(queue["c2"][1].chart) = << <<0, -1>>, <<1, 0>> >>

\* No packet waits and no thread is inside a handler.
Idle == \A b \in Ids : queue[b] = <<>> /\ pc[b] \in {"start", "loop", "recv", "done"}

\* The grid has a cell at exactly the coordinates [1..h] x [1..w].
HasDims(grid, h, w) ==
    /\ DOMAIN grid = 1..h
    /\ \A y \in 1..h : DOMAIN grid[y] = 1..w

\* C31: after a host has dispatched a resize and all mailboxes are idle, each
\* running child's recorded host height and width, and the dimensions of its
\* overlay, equal the height and width of the host's registry entry.
C31_OverlayFollowsHostResize ==
    \A a \in Ids :
        (/\ Idle
         /\ pc[a] \in {"loop", "recv"}
         /\ check_host(a)
         /\ \E i \in DOMAIN log[host[a]] : log[host[a]][i].cmd = "resize")
        => /\ host_height[a] = SPACE[host[a]].height
           /\ host_width[a] = SPACE[host[a]].width
           /\ ~IsNone(host_ref_canvas[a])
           /\ HasDims(Val(host_ref_canvas[a]),
                      Val(SPACE[host[a]].height), Val(SPACE[host[a]].width))

\* pkt is the forward_to packet of a's grid for target: the non-fill
\* coordinates in row-major order, translated by a's origin, each with that cell.
ExpectedForwardTo(a, pkt, target) ==
    LET cells == NonFill(a)
        o == Val(origin_yx[a])
    IN  /\ pkt.isdict /\ pkt.block = "present"
        /\ pkt.cmd = "forward_to"
        /\ pkt.args = [NoArgs EXCEPT !.canvas_id = target]
        /\ ~IsNone(pkt.chart) /\ ~IsNone(pkt.metadata)
        /\ Len(Val(pkt.chart)) = Cardinality(cells)
        /\ Len(Val(pkt.metadata)) = Cardinality(cells)
        /\ \A yx \in cells :
              LET i == 1 + Cardinality({q \in cells : RowMajorBefore(q, yx)})
              IN  /\ Val(pkt.chart)[i] = <<o[1] + yx[1] - 1, o[2] + yx[2] - 1>>
                  /\ Val(pkt.metadata)[i] = CellRef(a, yx[1], yx[2])

\* C32 (as stated): on forward_to(target) at an actor that is not the target
\* and whose host is registered, the packet is always enqueued to the host.
C32_Original ==
    [][\A a \in Ids :
          /\ (pc[a] = "check_host" /\ local[a].command = "forward_to" /\ Acts(a)
              /\ check_host(a))
             => pc'[a] = "lookup"
          /\ (pc[a] = "lookup" /\ local[a].command = "forward_to" /\ Acts(a))
             => pc'[a] = "put"]_vars

\* C32 (amended): on dispatching forward_to(target) an actor whose id differs
\* from target writes the packet's cells to its own grid.  If its host is
\* registered and at least one cell of its grid differs from its fill
\* character, it builds the forward_to packet of its grid with the same target
\* id (row-major non-fill coordinates, translated by the origin, each with its
\* cell); if the host is still registered when the mailbox is looked up,
\* exactly that one packet is put in the host's mailbox, and in no other
\* mailbox.  In every other case nothing is enqueued.  Only the target and
\* actors below it on the chain ever take such a packet, so no actor above the
\* target writes anything.
C32_ForwardTo ==
    /\ [][\A a \in Ids :
          /\ (/\ Receiving(a) /\ Acts(a)
              /\ Dispatches(Head(queue[a]))
              /\ Head(queue[a]).cmd = "forward_to"
              /\ Head(queue[a]).args.canvas_id # a
              /\ ~zip_raises(Head(queue[a])))
             => /\ WroteCells(a, Head(queue[a]))
                /\ queue' = Pop(a)
                /\ pc'[a] = "check_host"
                /\ local'[a].args_package.canvas_id = Head(queue[a]).args.canvas_id
          /\ (pc[a] = "check_host" /\ local[a].command = "forward_to" /\ Acts(a))
             => /\ queue' = queue /\ canvas' = canvas
                /\ IF check_host(a) /\ NonFill(a) # {}
                   THEN /\ pc'[a] = "lookup"
                        /\ ExpectedForwardTo(a, Val(local'[a].forward_packet),
                                             local[a].args_package.canvas_id)
                   ELSE pc'[a] = "loop" /\ local'[a] = NoLocal
          /\ (pc[a] = "lookup" /\ local[a].command = "forward_to" /\ Acts(a))
             => /\ queue' = queue /\ canvas' = canvas
                /\ IF Registered(host[a])
                   THEN /\ pc'[a] = "put"
                        /\ local'[a].forward_packet = local[a].forward_packet
                   ELSE pc'[a] = "loop" /\ local'[a] = NoLocal
          /\ (pc[a] = "put" /\ local[a].command = "forward_to" /\ Acts(a))
             => /\ queue' = [queue EXCEPT ![host[a]] =
                                Append(@, Val(local[a].forward_packet))]
                /\ canvas' = canvas
                /\ pc'[a] = "loop" /\ local'[a] = NoLocal]_vars
    /\ [](\A b \in Ids :
            /\ \A i \in DOMAIN log[b] :
                  log[b][i].cmd = "forward_to"
                  => log[b][i].args.canvas_id \in {b} \cup Ancestors(b, Cardinality(Ids))
            /\ (\A i \in DOMAIN log[b] : log[b][i].cmd # "forward_to")
               => canvas[b] = Some(create_canvas(b, OwnerOf(b), Val(height[b]), Val(width[b]),
                                                 fill_value[b], VisibleOf(b))))

\* C32 witness: c1 has dispatched forward_to(c2) with "A" for its cell (1, 1)
\* and c2, the target, has dispatched the packet c1 sent on: c2 shows "A" at
\* (1, 2) and forwarded nothing; c3, above the target, received nothing.
C32_Witness ==
    /\ Idle
    /\ Len(log["c1"]) = 1 /\ log["c1"][1].args.canvas_id = "c2"
    /\ Len(log["c2"]) = 1 /\ log["c2"][1].cmd = "forward_to"
    /\ forwarded["c1"] = 1 /\ forwarded["c2"] = 0
    /\ Val(canvas["c1"])[1][1].char = "A"
    /\ Val(canvas["c2"])[1][2].char = "A"
    /\ log["c3"] = <<>> /\ Val(canvas["c3"])[1][2].char = "."

\* The (height, width) pairs the registry entry of h has held: the dimensions
\* h was constructed with and those of the resizes h has dispatched.
HeldPairs(h) ==
    {<<FwdCfg[h].height, FwdCfg[h].width>>}
    \cup {<<log[h][i].args.height, log[h][i].args.width>> :
             i \in {j \in DOMAIN log[h] : log[h][j].cmd = "resize"}}

\* C33: the (height, width) pair a child has recorded for its host in a host
\* resync is a pair the host's registry entry held at one instant, never the
\* height from before and the width from after a resize of the host.
C33_HostPairReadAtOneInstant ==
    \A a \in Ids :
        (pc[a] \in {"loop", "recv"} /\ check_host(a) /\ ~IsNone(host_height[a]))
        => <<host_height[a], host_width[a]>> \in HeldPairs(host[a])

AttrsOf(a) ==
    <<alive[a], host[a], origin_yx[a], height[a], width[a], fill_value[a],
      conversion_chart[a], canvas[a], host_ref_canvas[a], host_height[a], host_width[a]>>

\* C35: once an actor has executed kill it takes no further packet: what is
\* queued behind the kill or arrives later stays in its mailbox, its grid and
\* its other attributes never change, its registry entry is never re-created
\* and it forwards nothing.
C35_NothingAfterKill ==
    [][\A a \in killed :
          /\ Len(queue'[a]) >= Len(queue[a])
          /\ \A i \in 1..Len(queue[a]) :
                /\ queue'[a][i].cmd = queue[a][i].cmd
                /\ queue'[a][i].args = queue[a][i].args
                /\ queue'[a][i].chart = queue[a][i].chart
          /\ log'[a] = log[a]
          /\ AttrsOf(a)' = AttrsOf(a)
          /\ ~Registered(a) /\ a \notin DOMAIN SPACE'
          /\ forwarded'[a] = forwarded[a]
          /\ pc'[a] \in {"loop", "finally", "done"}]_vars

\* C35 witness: c2, whose host c1 runs, took the kill packet and its thread
\* has ended; the auto_forward packet behind the kill is still in its mailbox,
\* its grid is untouched and nothing was forwarded to c1.
C35_Witness ==
    /\ "c2" \in killed /\ pc["c2"] = "done"
    /\ Len(log["c2"]) = 1 /\ log["c2"][1].cmd = "!kill"
    /\ Len(queue["c2"]) = 1 /\ queue["c2"][1].cmd = "auto_forward"
    /\ Val(canvas["c2"])[1][1].char = "."
    /\ ~Registered("c2") /\ Registered("c1")
    /\ forwarded["c2"] = 0 /\ queue["c1"] = <<>>

\* C36: once the liveness flag of an actor is cleared, the actor takes at most
\* one further packet from its mailbox, the one of the loop iteration in
\* progress, before its loop ends; the flag is read only at the loop test, so
\* a thread leaves for the finally block from there and never from inside a
\* dispatch.
C36_AtMostOnePacketAfterClear ==
    /\ \A a \in {"c1", "c2"} : \A n \in 0..MaxInject :
          [](~alive[a] /\ Len(log[a]) = n => [](Len(log[a]) <= n + 1))
    /\ [][\A a \in Ids :
            (pc'[a] = "finally" /\ pc[a] # "finally") => (pc[a] = "loop" /\ ~alive[a])]_vars
    /\ [][\A a \in Ids :
            (~alive[a] /\ pc[a] = "loop" /\ Acts(a)) => pc'[a] = "finally"]_vars

\* C36 witness: the flag of c1 was cleared from outside while c1 handles a
\* resize packet, with a second packet waiting in its mailbox.
C36_Witness ==
    /\ ~alive["c1"] /\ "c1" \notin killed
    /\ pc["c1"] = "sync_to_space"
    /\ Len(log["c1"]) = 1
    /\ Len(queue["c1"]) = 1

\* C37: between packet dispatches, an actor's conversion chart, when it
\* exists, is the row-major rectangle of coordinates for the actor's current
\* origin, height and width (taken to be numbers).
C37_ChartMatchesGeometry ==
    \A a \in Ids :
        (/\ pc[a] \in {"loop", "recv"}
         /\ ~IsNone(conversion_chart[a])
         /\ ~IsNone(origin_yx[a]) /\ ~IsNone(height[a]) /\ ~IsNone(width[a]))
        => Val(conversion_chart[a]) =
              ExpectedCoords(Val(origin_yx[a])[1], Val(origin_yx[a])[2],
                             Val(height[a]), Val(width[a]))

\* C38: between packet dispatches, a running actor's grid has a cell at
\* exactly the coordinates [1..height] x [1..width] for its current height and
\* width, and its registry entry carries that same height and width.
C38_GridMatchesDimensions ==
    \A a \in Ids :
        (pc[a] \in {"loop", "recv"} /\ alive[a] /\ Registered(a))
        => /\ ~IsNone(height[a]) /\ ~IsNone(width[a])
           /\ ~IsNone(canvas[a])
           /\ HasDims(Val(canvas[a]), Val(height[a]), Val(width[a]))
           /\ SPACE[a].height = height[a] /\ SPACE[a].width = width[a]

\* C39: every iteration of a running actor's loop attempts a mailbox receive
\* after polling the timer, whatever the timer's callbacks do: the step that
\* tests the flag and polls the timer is followed by the receive.
C39_EveryIterationReceives ==
    [][\A a \in Ids :
          (/\ pc[a] = "loop" /\ alive[a]
           /\ \/ Acts(a)
              \/ \E n \in DOMAIN timer_events[a] :
                    timer_events'[a][n].last_trigger # timer_events[a][n].last_trigger)
          => pc'[a] = "recv"]_vars


\* C40: an event scheduled at time t with an interval and a callback is not
\* invoked by a poll made before time t + interval: a poll of the log hub's
\* timer that triggers an event (its timestamp moves) is made at least one
\* interval after event() stored it.
C40_NoInvocationBeforeOneInterval ==
    [][\A name \in EventNames :
          (/\ name \in DOMAIN timer_events["loghub"]
           /\ name \in DOMAIN timer_events'["loghub"]
           /\ scheduled' = scheduled
           /\ timer_events'["loghub"][name].last_trigger
                 # timer_events["loghub"][name].last_trigger
           /\ invoked'["loghub"][name] >= 1)
          => now >= scheduled["loghub"][name] + timer_events["loghub"][name].interval]_vars

====
